---- MODULE Spec2Model ----
(***************************************************************************)
(* A model of the theme manager of themed.js (packages/core):              *)
(* the registry of themes, the active theme, the CSS injector, the         *)
(* storage collaborator and the asynchronous apply / generate calls,       *)
(* each cut at its await points.                                           *)
(***************************************************************************)
EXTENDS Integers, Sequences, FiniteSets, Bags, TLC

(***************************************************************************)
(* Bounds of the model.                                                    *)
(***************************************************************************)
MaxCalls == 2
MaxOps == 2
MaxTime == 1

(***************************************************************************)
(* Values.                                                                 *)
(***************************************************************************)
NoId == <<"", 0>>
LightId == <<"light", 0>>
DarkId == <<"dark", 0>>
CustomId == <<"custom", 0>>
MissingId == <<"missing", 0>>
AiId(t) == <<"ai", t>>

NoCustom == "undefined"
CustomData == {"brandA"}

\* A theme: its id, meta.source and custom data.  NoTheme is null.
NoTheme == [id |-> NoId, source |-> "", custom |-> NoCustom]
lightTheme == [id |-> LightId, source |-> "builtin", custom |-> NoCustom]
darkTheme == [id |-> DarkId, source |-> "builtin", custom |-> NoCustom]

EmptyMap == [k \in {} |-> NoTheme]
MapSet(m, k, v) == [x \in (DOMAIN m) \cup {k} |-> IF x = k THEN v ELSE m[x]]
MapDelete(m, k) == [x \in (DOMAIN m) \ {k} |-> m[x]]
MapHas(m, k) == k \in DOMAIN m

Prompts == {"warm"}
NoError == ""
NotConfiguredError == "AI is not configured"
NotFoundError == "Theme not found"
StorageError == "StorageError"
AIErrors == {"AIError", "rawValue"}
NonErrorValues == {"rawValue"}

\* options.storage.type.  With 'indexedDB' the manager takes the steps it
\* takes with 'localStorage': the same awaits, the same two outcomes.
StorageTypes == {"none", "localStorage"}

VARIABLES
  themes,            \* ThemeManager.themes: Map id -> Theme
  activeTheme,       \* ThemeManager.activeTheme (NoTheme is null)
  css,               \* CSSInjector: the id of the theme whose tokens are in the style element
  aiOrchestrator,    \* ThemeManager.aiOrchestrator is not null
  orchestratorAI,    \* the AIOptions the orchestrator was made from
  optionsAI,         \* options.ai
  storageManager,    \* ThemeManager.storageManager is not null
  storageType,       \* options.storage.type
  storageAutoSave,   \* options.storage.autoSave !== false
  persistedActiveId, \* the stored record <prefix>:activeTheme
  persistedThemes,   \* the stored theme records, by id
  now,               \* the last value Date.now() returned
  calls,             \* the bag of asynchronous calls in flight (apply, generate)
  settled,           \* the call the last step settled (resolved or rejected), if any
  nops,              \* the number of operations the caller has started so far
  lastOp,            \* the synchronous operation the last step was, if any
  retry,             \* BaseAIProvider: one complete() call, its retry loop and request
  orch,              \* AIOrchestrator: its provider and the calls made of it
  bus,               \* EventBus: listeners, the emits in progress, what ran
  store,             \* StorageManager: its adapters, what is stored, the last call
  engine,            \* PromptEngine: the reply at hand and what the last call returned
  resolver,          \* TokenResolver: the token set at hand and what the last call returned
  delivery,          \* ThemeManager with its EventBus: one operation, statement by statement
  boot,              \* ThemeManager.initialized and the options init reads, with what init did
  binding            \* the React or Vue binding: its isGenerating flags and the calls made through it

managerVars == <<themes, activeTheme, css, aiOrchestrator, orchestratorAI,
                 storageManager>>
configVars == <<storageType, storageAutoSave, optionsAI>>
storeVars == <<persistedActiveId, persistedThemes>>
vars == <<themes, activeTheme, css, aiOrchestrator, orchestratorAI, optionsAI,
          storageManager,
          storageType, storageAutoSave, persistedActiveId, persistedThemes,
          now, calls, settled, nops, lastOp, retry, orch, bus, store, engine,
          resolver, delivery, boot, binding>>

\* The manager and its bookkeeping; the collaborators modelled on their own.
themeManagerVars == <<themes, activeTheme, css, aiOrchestrator, orchestratorAI,
                      optionsAI, storageManager,
                      storageType, storageAutoSave, persistedActiveId,
                      persistedThemes, now, calls, settled, nops, lastOp>>
\* The parts of the library that are modelled with no link to the manager.
libVars == <<store, engine, resolver, delivery, boot, binding>>
collabVars == <<retry, orch, bus, libVars>>

(***************************************************************************)
(* Events (EventBus.emit) and the other effects of a call, one record      *)
(* shape for all of them.                                                  *)
(***************************************************************************)
Entry == [type |-> "", theme |-> NoTheme, previousTheme |-> NoTheme,
          themeId |-> NoId, prompt |-> "", error |-> NoError, context |-> ""]

\* A theme:changed event that forgets the theme it replaces.
EvChangedNoPrevious(theme, previousTheme) ==
  [Entry EXCEPT !.type = "theme:changed", !.theme = theme]

EvChanged(theme, previousTheme) ==
  [Entry EXCEPT !.type = "theme:changed", !.theme = theme,
                !.previousTheme = previousTheme]
EvRegistered(theme) == [Entry EXCEPT !.type = "theme:registered", !.theme = theme]
EvUnregistered(themeId) ==
  [Entry EXCEPT !.type = "theme:unregistered", !.themeId = themeId]
EvGenerating(prompt) == [Entry EXCEPT !.type = "theme:generating", !.prompt = prompt]
EvGenerated(theme, prompt) ==
  [Entry EXCEPT !.type = "theme:generated", !.theme = theme, !.prompt = prompt]
EvError(error, context) ==
  [Entry EXCEPT !.type = "theme:error", !.error = error, !.context = context]

Eff(type, theme) == [Entry EXCEPT !.type = type, !.theme = theme]

\* AIOptions: the provider is a type name or a provider instance with a
\* name; NoAI is options.ai undefined, NoAIConfig the null getAIConfig returns.
NoAI == [provider |-> <<"", "">>, model |-> ""]
NoAIConfig == [provider |-> "", model |-> ""]
ConstructorAI == [provider |-> <<"type", "openai">>, model |-> "undefined"]
AIOptions == {ConstructorAI,
              [provider |-> <<"instance", "custom">>, model |-> "model-b"]}

DefaultOpts == [autoApply |-> TRUE, autoSave |-> TRUE]
GenerateOptions == [autoApply : BOOLEAN, autoSave : BOOLEAN]

\* The manager's fields as an operation finds them.
NoPre == [themes |-> EmptyMap, activeTheme |-> NoTheme, css |-> NoId,
          aiOrchestrator |-> FALSE, storageManager |-> FALSE,
          persistedActiveId |-> NoId, initialized |-> FALSE]

\* A call: its kind, the await it is suspended at, its arguments and locals,
\* the manager's fields when it began and what it has done so far.
IdleCall == [kind |-> "none", pc |-> "idle", id |-> NoId, prompt |-> "",
             opts |-> DefaultOpts, theme |-> NoTheme, target |-> NoTheme,
             previousTheme |-> NoTheme, pre |-> NoPre,
             error |-> NoError, log |-> <<>>]

\* A synchronous operation: its name and arguments, the manager's fields
\* before it, the value it returned and the events it emitted.
NoOp == [name |-> "", id |-> NoId, data |-> NoCustom, pre |-> NoPre,
         ret |-> "", events |-> <<>>]
Pre == [themes |-> themes, activeTheme |-> activeTheme, css |-> css,
        aiOrchestrator |-> aiOrchestrator, storageManager |-> storageManager,
        persistedActiveId |-> persistedActiveId, initialized |-> boot.initialized]

(***************************************************************************)
(* BaseAIProvider (ai/providers/base.ts) and OpenAIProvider.complete: the   *)
(* values of one complete() call.                                          *)
(***************************************************************************)
DefaultTimeout == 60000
DefaultMaxRetries == 3
BackoffBase == 1000
MaxRetriesOption == 2

\* config.maxRetries: not given, or a number.
MaxRetriesConfigs ==
  {<<"undefined", 0>>} \cup {<<"number", n>> : n \in 0..MaxRetriesOption}

\* const retries = maxRetries ?? this.config.maxRetries ?? 3, the constructor
\* having put 3 where the option is not given.
retriesOf(cfg) == IF cfg[1] = "undefined" THEN DefaultMaxRetries ELSE cfg[2]

\* The errors an attempt of OpenAIProvider.complete throws, by message.
TimeoutError == "Request timeout after 60000ms"
NetworkError == "fetch failed"
HttpError == "OpenAI API error: status"
EmptyReplyError == "OpenAI returned empty response"
AttemptErrors == {TimeoutError, NetworkError, HttpError, EmptyReplyError}

\* Math.pow(2, i) * 1000, i the index of the failed attempt from 0.
backoffLinear(i) == (i + 1) * BackoffBase

backoff(i) == (2 ^ i) * BackoffBase

\* pc: idle, attempt (fn is running), sleep, resolved, rejected.
\* phase of the request of the running attempt: headers (fetch pending, the
\* abort timer armed), body (response received, timer cleared, body being
\* read).
IdleRetry == [pc |-> "idle", retries |-> 0, i |-> 0, attempts |-> 0,
              phase |-> "", ok |-> FALSE, timeout |-> DefaultTimeout,
              overdue |-> FALSE, failures |-> <<>>, sleeps |-> <<>>,
              lastError |-> NoError, lastErrorOf |-> 0, result |-> 0]

(***************************************************************************)
(* AIOrchestrator (ai/AIOrchestrator.ts): providers are numbered in the    *)
(* order they are bound, texts are sequences of chunks.                    *)
(***************************************************************************)
MaxProviders == 3
MaxOrchCalls == 1
MaxChunks == 2

Chunks == {"a", "b"}
Replies == {"valid", "unparsable", "noColors"}
ParseError == "Failed to parse AI response as JSON"
SchemaError == "Invalid theme tokens: missing or invalid colors"
ProviderError == "provider error"

\* JSON.stringify(result.tokens)
TokensJson == <<"tokens">>

NoOrchCall == [kind |-> "", pc |-> "", madeUnder |-> 0, used |-> <<>>,
               completeCalls |-> 0, streamCalls |-> 0, log |-> <<>>,
               accumulated |-> <<>>, items |-> <<>>, error |-> NoError]

\* new AIOrchestrator(options): the provider the factory made.
NewOrchestrator(stream) == [provider |-> 1, canStream |-> <<stream>>, calls |-> <<>>]

(***************************************************************************)
(* EventBus (EventBus.ts).  A function subscribed is a handler given to    *)
(* on() or the wrapper once() makes around a handler.  The Set of an event *)
(* is its list of entries in insertion order, a deleted entry left in      *)
(* place as the iterator of a running emit sees it.                        *)
(***************************************************************************)
MaxBusOps == 5
MaxDepth == 2
MaxOnce == 1
MaxStorageOps == 3

Events == {"theme:changed", "theme:error"}
Handlers == {"h1", "h2"}
PayloadData == {"data"}

Fn(h) == <<"fn", h>>
OnceFn(k) == <<"once", k>>

NoSet == <<>>

\* new EventBus(): no listeners, no emit running.
NewEventBus == [listeners |-> [e \in Events |-> NoSet], stack |-> <<>>,
                onceOf |-> <<>>, fired |-> <<>>, unsubscribed |-> {}, nops |-> 0]

(***************************************************************************)
(* Texts and JSON.  A text is a sequence of symbols.  A symbol is one      *)
(* character or, for a name that is only ever compared as a whole (a key,  *)
(* a literal, a default, a word of prose), the word.  Values a validator   *)
(* reads are written character by character.                               *)
(***************************************************************************)
Quote == "\""
\* The three backticks that open and close a code block.
Fence == "fence"
Whitespace == {" ", "\n"}
Digits == {"0", "1", "2", "3", "4", "5", "6", "7", "8", "9"}
HexLetters == {"a", "b", "c", "d", "e", "f", "A", "B", "C", "D", "E", "F"}
Letters ==
  {"a", "b", "c", "d", "e", "f", "g", "h", "i", "j", "k", "l", "m", "n", "o",
   "p", "q", "r", "s", "t", "u", "v", "w", "x", "y", "z",
   "A", "B", "C", "D", "E", "F", "G", "H", "I", "J", "K", "L", "M", "N", "O",
   "P", "Q", "R", "S", "T", "U", "V", "W", "X", "Y", "Z"}

\* A JSON value, one record shape for every type: s the characters of a
\* string or number, f the members of an object by key, a the elements of
\* an array.
JsonValue(t, s, f, a) == [t |-> t, s |-> s, f |-> f, a |-> a]
Undefined == JsonValue("undefined", <<>>, <<>>, <<>>)
JsonNull == JsonValue("null", <<>>, <<>>, <<>>)
JsonBoolean(word) == JsonValue("boolean", <<word>>, <<>>, <<>>)
JsonNumber(s) == JsonValue("number", s, <<>>, <<>>)
JsonString(s) == JsonValue("string", s, <<>>, <<>>)
JsonArray(a) == JsonValue("array", <<>>, <<>>, a)
JsonObject(f) == JsonValue("object", <<>>, f, <<>>)
\* A method a string inherits.
StringMethod(name) == JsonValue("function", <<name>>, <<>>, <<>>)

\* typeof v === 'object' (null included, as in JavaScript).
TypeofObject(v) == v.t \in {"object", "array", "null"}
\* The value is falsy.
Falsy(v) ==
  \/ v.t \in {"undefined", "null"}
  \/ v.t = "boolean" /\ v.s = <<"false">>
  \/ v.t = "number" /\ v.s \in {<<"0">>, <<"-", "0">>}
  \/ v.t = "string" /\ v.s = <<>>

\* v[key]: an own member of an object; of a string, the method of that
\* name; undefined otherwise.
Get(v, key) ==
  IF v.t = "object" /\ key \in DOMAIN v.f THEN v.f[key]
  ELSE IF v.t = "string" /\ key = <<"bold">> THEN StringMethod("bold")
  ELSE Undefined

Put(f, key, v) == [x \in (DOMAIN f) \cup {key} |-> IF x = key THEN v ELSE f[x]]

\* String.prototype.trim.
trim(t) ==
  LET ink == {i \in 1..Len(t) : t[i] \notin Whitespace}
  IN IF ink = {} THEN <<>>
     ELSE SubSeq(t, CHOOSE i \in ink : \A j \in ink : i <= j,
                    CHOOSE i \in ink : \A j \in ink : j <= i)

\* JSON.parse, by recursive descent from position i; what a step returns
\* is the value and the position after it.  Escapes and exponents are not
\* read: a text holding one does not parse.
ParseFail == [ok |-> FALSE, v |-> Undefined, i |-> 0]
Parsed(v, i) == [ok |-> TRUE, v |-> v, i |-> i]

SkipWhitespace(t, i) ==
  CHOOSE j \in i..(Len(t) + 1) :
    /\ \A k \in i..(j - 1) : t[k] \in Whitespace
    /\ (j = Len(t) + 1 \/ t[j] \notin Whitespace)

DigitsEnd(t, i) ==
  CHOOSE j \in i..(Len(t) + 1) :
    /\ \A k \in i..(j - 1) : t[k] \in Digits
    /\ (j = Len(t) + 1 \/ t[j] \notin Digits)

parseString(t, i) ==
  LET closing == {j \in (i + 1)..Len(t) : t[j] = Quote}
      j == CHOOSE c \in closing : \A d \in closing : c <= d
  IN IF closing = {} THEN ParseFail
     ELSE IF \E k \in (i + 1)..(j - 1) : t[k] \in {"\n", "\\"} THEN ParseFail
     ELSE Parsed(JsonString(SubSeq(t, i + 1, j - 1)), j + 1)

parseNumber(t, i) ==
  LET a == IF t[i] = "-" THEN i + 1 ELSE i
      b == IF a > Len(t) THEN a ELSE DigitsEnd(t, a)
      dot == b <= Len(t) /\ t[b] = "."
      c == IF ~dot THEN b
           ELSE IF b + 1 > Len(t) THEN b + 1 ELSE DigitsEnd(t, b + 1)
  IN IF b = a \/ (b - a > 1 /\ t[a] = "0") \/ (dot /\ c = b + 1) THEN ParseFail
     ELSE Parsed(JsonNumber(SubSeq(t, i, c - 1)), c)

RECURSIVE parseValue(_, _)
RECURSIVE parseMembers(_, _, _)
RECURSIVE parseElements(_, _, _)

parseValue(t, from) ==
  LET i == SkipWhitespace(t, from)
  IN IF i > Len(t) THEN ParseFail
     ELSE IF t[i] = "{"
          THEN LET j == SkipWhitespace(t, i + 1)
               IN IF j <= Len(t) /\ t[j] = "}"
                  THEN Parsed(JsonObject(<<>>), j + 1)
                  ELSE parseMembers(t, j, <<>>)
     ELSE IF t[i] = "["
          THEN LET j == SkipWhitespace(t, i + 1)
               IN IF j <= Len(t) /\ t[j] = "]"
                  THEN Parsed(JsonArray(<<>>), j + 1)
                  ELSE parseElements(t, j, <<>>)
     ELSE IF t[i] = Quote THEN parseString(t, i)
     ELSE IF t[i] = "null" THEN Parsed(JsonNull, i + 1)
     ELSE IF t[i] \in {"true", "false"} THEN Parsed(JsonBoolean(t[i]), i + 1)
     ELSE IF t[i] \in Digits \cup {"-"} THEN parseNumber(t, i)
     ELSE ParseFail

parseMembers(t, i, f) ==
  IF i > Len(t) \/ t[i] # Quote THEN ParseFail
  ELSE LET key == parseString(t, i)
           colon == IF key.ok THEN SkipWhitespace(t, key.i) ELSE 0
       IN IF ~key.ok \/ colon > Len(t) \/ t[colon] # ":" THEN ParseFail
          ELSE LET v == parseValue(t, colon + 1)
                   next == IF v.ok THEN SkipWhitespace(t, v.i) ELSE 0
               IN IF ~v.ok \/ next > Len(t) THEN ParseFail
                  ELSE IF t[next] = ","
                       THEN parseMembers(t, SkipWhitespace(t, next + 1),
                                         Put(f, key.v.s, v.v))
                  ELSE IF t[next] = "}"
                       THEN Parsed(JsonObject(Put(f, key.v.s, v.v)), next + 1)
                  ELSE ParseFail

parseElements(t, i, a) ==
  LET v == parseValue(t, i)
      next == IF v.ok THEN SkipWhitespace(t, v.i) ELSE 0
  IN IF ~v.ok \/ next > Len(t) THEN ParseFail
     ELSE IF t[next] = "," THEN parseElements(t, next + 1, Append(a, v.v))
     ELSE IF t[next] = "]" THEN Parsed(JsonArray(Append(a, v.v)), next + 1)
     ELSE ParseFail

JSONParse(t) ==
  LET r == parseValue(t, 1)
  IN IF r.ok /\ SkipWhitespace(t, r.i) > Len(t) THEN r ELSE ParseFail


(***************************************************************************)
(* PromptEngine (ai/PromptEngine.ts): parseFullResponse, parseResponse and *)
(* the normalisation of the parsed reply into a token set.  A token set is *)
(* a record of its six groups; the value of a key is a text, in typography *)
(* (which is not validated) a JSON value.                                  *)
(***************************************************************************)
ExpectedObjectError == "Invalid AI response: expected an object"
ExpectedTokensError == "Invalid theme tokens: expected an object"

MaxColorNameLength == 20
MaxRadiusLength == 30
MaxShadowLength == 500

ColorRoles ==
  {"primary", "secondary", "accent", "background", "surface", "error",
   "warning", "success", "info", "textPrimary", "textSecondary",
   "textDisabled", "textInverse", "border", "borderLight", "borderDark"}
RadiusKeys == {"none", "sm", "md", "lg", "full"}
ShadowKeys == {"none", "sm", "md", "lg"}

fallbacks ==
  [primary |-> <<"#6366f1">>, secondary |-> <<"#8b5cf6">>,
   accent |-> <<"#f59e0b">>, background |-> <<"#ffffff">>,
   surface |-> <<"#f8fafc">>, error |-> <<"#ef4444">>,
   warning |-> <<"#f59e0b">>, success |-> <<"#22c55e">>,
   info |-> <<"#3b82f6">>, textPrimary |-> <<"#1f2937">>,
   textSecondary |-> <<"#6b7280">>, textDisabled |-> <<"#9ca3af">>,
   textInverse |-> <<"#ffffff">>, border |-> <<"#e5e7eb">>,
   borderLight |-> <<"#f3f4f6">>, borderDark |-> <<"#d1d5db">>]

defaultTypographyTokens ==
  [fontFamily |->
     [sans |-> JsonString(<<"system-ui, -apple-system, BlinkMacSystemFont, \"Segoe UI\", Roboto, sans-serif">>),
      serif |-> JsonString(<<"Georgia, Cambria, \"Times New Roman\", Times, serif">>),
      mono |-> JsonString(<<"ui-monospace, SFMono-Regular, \"SF Mono\", Menlo, Consolas, monospace">>)],
   fontSize |->
     [xs |-> JsonString(<<"0.75rem">>), sm |-> JsonString(<<"0.875rem">>),
      base |-> JsonString(<<"1rem">>), lg |-> JsonString(<<"1.125rem">>),
      xl |-> JsonString(<<"1.25rem">>), 2xl |-> JsonString(<<"1.5rem">>),
      3xl |-> JsonString(<<"1.875rem">>)],
   fontWeight |->
     [light |-> JsonNumber(<<"300">>), normal |-> JsonNumber(<<"400">>),
      medium |-> JsonNumber(<<"500">>), semibold |-> JsonNumber(<<"600">>),
      bold |-> JsonNumber(<<"700">>)],
   lineHeight |->
     [tight |-> JsonNumber(<<"1.25">>), normal |-> JsonNumber(<<"1.5">>),
      relaxed |-> JsonNumber(<<"1.75">>)]]

defaultSpacingTokens ==
  [none |-> <<"0">>, xs |-> <<"0.25rem">>, sm |-> <<"0.5rem">>,
   md |-> <<"0.75rem">>, lg |-> <<"1rem">>, xl |-> <<"1.5rem">>,
   2xl |-> <<"2rem">>]
defaultRadiusTokens ==
  [none |-> <<"0">>, sm |-> <<"0.25rem">>, md |-> <<"0.5rem">>,
   lg |-> <<"0.75rem">>, full |-> <<"9999px">>]
defaultShadowTokens ==
  [none |-> <<"none">>, sm |-> <<"0 1px 2px 0 rgb(0 0 0 / 0.05)">>,
   md |-> <<"0 4px 6px -1px rgb(0 0 0 / 0.1), 0 2px 4px -2px rgb(0 0 0 / 0.1)">>,
   lg |-> <<"0 10px 15px -3px rgb(0 0 0 / 0.1), 0 4px 6px -4px rgb(0 0 0 / 0.1)">>]
defaultTransitionTokens ==
  [fast |-> <<"150ms">>, normal |-> <<"250ms">>, slow |-> <<"400ms">>]

NoTokens ==
  [colors |-> <<>>, typography |-> <<>>, spacing |-> <<>>, radius |-> <<>>,
   shadow |-> <<>>, transition |-> <<>>]

AllIn(s, from, to, set) == \A i \in from..to : s[i] \in set

\* /^name\([\d\s,%.]+\)$/ for name in {rgb, rgba} or {hsl, hsla}.
FunctionalNotation(color, name) ==
  \E open \in {Len(name) + 1, Len(name) + 2} :
    /\ Len(color) >= open + 2
    /\ SubSeq(color, 1, open - 1) \in {name, name \o <<"a">>}
    /\ color[open] = "("
    /\ color[Len(color)] = ")"
    /\ AllIn(color, open + 1, Len(color) - 1,
             Digits \cup Whitespace \cup {",", "%", "."})

isValidColor(color) ==
  \/ /\ Len(color) \in {4, 7, 9}
     /\ color[1] = "#"
     /\ AllIn(color, 2, Len(color), Digits \cup HexLetters)
  \/ FunctionalNotation(color, <<"r", "g", "b">>)
  \/ FunctionalNotation(color, <<"h", "s", "l">>)
  \/ /\ Len(color) >= 1
     /\ AllIn(color, 1, Len(color), Letters)
     /\ Len(color) <= MaxColorNameLength

generateFallbackColor(key, colors) == fallbacks[key]

\* A normalisation that trusts no field of a reply holding a bad one.
normalizeColorsAllOrNothing(colors) ==
  IF \A key \in ColorRoles :
       Get(colors, <<key>>).t = "string" /\ isValidColor(Get(colors, <<key>>).s)
  THEN [key \in ColorRoles |-> Get(colors, <<key>>).s]
  ELSE [key \in ColorRoles |-> generateFallbackColor(key, colors)]

normalizeColors(colors) ==
  [key \in ColorRoles |->
     LET value == Get(colors, <<key>>)
     IN IF value.t = "string" /\ isValidColor(value.s)
        THEN value.s
        ELSE generateFallbackColor(key, colors)]

\* The left operand whatever it is.
CoalesceLeft(a, b) == a

\* a ?? b
Coalesce(a, b) == IF a.t \in {"undefined", "null"} THEN b ELSE a

normalizeTypography(typography) ==
  [group \in DOMAIN defaultTypographyTokens |->
     [key \in DOMAIN defaultTypographyTokens[group] |->
        Coalesce(Get(Get(typography, <<group>>), <<key>>),
                 defaultTypographyTokens[group][key])]]

\* /^\d+(\.\d+)?(rem|px)$/
RadiusLength(s) ==
  \E unit \in {<<"r", "e", "m">>, <<"p", "x">>} :
    LET n == Len(s) - Len(unit)
        dots == {i \in 1..n : s[i] = "."}
    IN /\ n >= 1
       /\ SubSeq(s, n + 1, Len(s)) = unit
       /\ AllIn(s, 1, n, Digits \cup {"."})
       /\ Cardinality(dots) <= 1
       /\ \A i \in dots : 1 < i /\ i < n

isValidRadiusValue(s) ==
  IF Len(s) = 0 \/ Len(s) > MaxRadiusLength THEN FALSE
  ELSE IF s = <<"0">> \/ s = <<"n", "o", "n", "e">> THEN TRUE
  ELSE IF s = <<"9", "9", "9", "9", "p", "x">> THEN TRUE
  ELSE RadiusLength(trim(s))

isValidShadowValue(s) ==
  IF Len(s) = 0 \/ Len(s) > MaxShadowLength THEN FALSE ELSE TRUE

\* A normalisation that takes every string of the reply.
normalizeRadiusUnchecked(radius) ==
  [key \in RadiusKeys |->
     LET value == Get(radius, <<key>>)
     IN IF value.t = "string" THEN value.s ELSE defaultRadiusTokens[key]]

normalizeRadius(radius) ==
  [key \in RadiusKeys |->
     LET value == Get(radius, <<key>>)
     IN IF value.t = "string" /\ isValidRadiusValue(value.s)
        THEN value.s
        ELSE defaultRadiusTokens[key]]

normalizeShadow(shadow) ==
  [key \in ShadowKeys |->
     LET value == Get(shadow, <<key>>)
     IN IF value.t = "string" /\ isValidShadowValue(value.s)
        THEN value.s
        ELSE defaultShadowTokens[key]]

\* What a call returns: the error thrown if any, the tokens, the custom data.
Threw(error) == [error |-> error, tokens |-> NoTokens, custom |-> Undefined]

\* obj.x && typeof obj.x === 'object'
TruthyObject(v) == ~Falsy(v) /\ TypeofObject(v)

normalizeTokens(parsed) ==
  IF ~TypeofObject(parsed) \/ parsed.t = "null" THEN Threw(ExpectedTokensError)
  ELSE IF ~TruthyObject(Get(parsed, <<"colors">>)) THEN Threw(SchemaError)
  ELSE [error |-> NoError,
        tokens |->
          [colors |-> normalizeColors(Get(parsed, <<"colors">>)),
           typography |->
             IF TruthyObject(Get(parsed, <<"typography">>))
             THEN normalizeTypography(Get(parsed, <<"typography">>))
             ELSE defaultTypographyTokens,
           spacing |-> defaultSpacingTokens,
           radius |->
             IF TruthyObject(Get(parsed, <<"radius">>))
             THEN normalizeRadius(Get(parsed, <<"radius">>))
             ELSE defaultRadiusTokens,
           shadow |->
             IF TruthyObject(Get(parsed, <<"shadow">>))
             THEN normalizeShadow(Get(parsed, <<"shadow">>))
             ELSE defaultShadowTokens,
           transition |-> defaultTransitionTokens],
        custom |-> Undefined]

\* response.match(/```(?:json)?\s*([\s\S]*?)```/): the capture, from the
\* first fence to the next one.
codeBlockMatch(t) ==
  LET fences == {i \in 1..Len(t) : t[i] = Fence}
      open == CHOOSE i \in fences : \A j \in fences : i <= j
      close == CHOOSE i \in fences \ {open} : \A j \in fences \ {open} : i <= j
      from == IF open + 1 < close /\ t[open + 1] = "json" THEN open + 2 ELSE open + 1
  IN IF Cardinality(fences) < 2 THEN [matched |-> FALSE, text |-> <<>>]
     ELSE [matched |-> TRUE, text |-> SubSeq(t, from, close - 1)]

\* jsonStr.match(/\{[\s\S]*\}/): from the first { to the last }.
jsonMatch(t) ==
  LET opens == {i \in 1..Len(t) : t[i] = "{"}
      open == CHOOSE i \in opens : \A j \in opens : i <= j
      closes == {i \in 1..Len(t) : t[i] = "}" /\ i > open}
      close == CHOOSE i \in closes : \A j \in closes : j <= i
  IN IF opens = {} THEN [matched |-> FALSE, text |-> <<>>]
     ELSE IF closes = {} THEN [matched |-> FALSE, text |-> <<>>]
     ELSE [matched |-> TRUE, text |-> SubSeq(t, open, close)]

\* const { custom: _removed, ...rest } = obj
Rest(obj) ==
  IF obj.t = "array"
  THEN JsonObject([key \in {<<ToString(i - 1)>> : i \in 1..Len(obj.a)} |->
                     obj.a[CHOOSE i \in 1..Len(obj.a) : <<ToString(i - 1)>> = key]])
  ELSE JsonObject([key \in (DOMAIN obj.f) \ {<<"custom">>} |-> obj.f[key]])

\* The text handed to JSON.parse: the reply trimmed, the inside of its code
\* block if it has one, of that the span of braces if it has one.
jsonStrOf(response) ==
  LET trimmed == trim(response)
      block == codeBlockMatch(trimmed)
      inner == IF block.matched THEN trim(block.text) ELSE trimmed
      braces == jsonMatch(inner)
  IN IF braces.matched THEN braces.text ELSE inner

\* A parse that returns whatever the reply holds under custom.
parseFullResponseAnyCustom(response) ==
  LET parsed == JSONParse(jsonStrOf(response))
      r == normalizeTokens(Rest(parsed.v))
  IN IF ~parsed.ok THEN Threw(ParseError)
     ELSE IF ~TypeofObject(parsed.v) \/ parsed.v.t = "null"
          THEN Threw(ExpectedObjectError)
     ELSE IF r.error # NoError THEN r
     ELSE [r EXCEPT !.custom = Get(parsed.v, <<"custom">>)]

parseFullResponse(response) ==
  LET parsed == JSONParse(jsonStrOf(response))
      custom == Get(parsed.v, <<"custom">>)
      r == normalizeTokens(Rest(parsed.v))
  IN IF ~parsed.ok THEN Threw(ParseError)
     ELSE IF ~TypeofObject(parsed.v) \/ parsed.v.t = "null"
          THEN Threw(ExpectedObjectError)
     ELSE IF r.error # NoError THEN r
     ELSE [r EXCEPT !.custom = IF custom.t = "object" THEN custom ELSE Undefined]

parseResponse(response) ==
  LET r == parseFullResponse(response)
  IN IF r.error # NoError THEN r ELSE [r EXCEPT !.custom = Undefined]


\* new PromptEngine(), a reply at hand and no call made yet.
NewEngine(text) == [reply |-> text, call |-> "", result |-> Threw(NoError)]

(***************************************************************************)
(* TokenResolver (TokenResolver.ts).  A token set is the object the        *)
(* resolver is handed, its keys written character by character; the value  *)
(* of a leaf is a string or a number.                                      *)
(***************************************************************************)
\* The characters of each name the resolver reads or writes.
Chars ==
  [primary |-> <<"p", "r", "i", "m", "a", "r", "y">>,
   secondary |-> <<"s", "e", "c", "o", "n", "d", "a", "r", "y">>,
   accent |-> <<"a", "c", "c", "e", "n", "t">>,
   background |-> <<"b", "a", "c", "k", "g", "r", "o", "u", "n", "d">>,
   surface |-> <<"s", "u", "r", "f", "a", "c", "e">>,
   error |-> <<"e", "r", "r", "o", "r">>,
   warning |-> <<"w", "a", "r", "n", "i", "n", "g">>,
   success |-> <<"s", "u", "c", "c", "e", "s", "s">>,
   info |-> <<"i", "n", "f", "o">>,
   textPrimary |-> <<"t", "e", "x", "t", "P", "r", "i", "m", "a", "r", "y">>,
   textSecondary |-> <<"t", "e", "x", "t", "S", "e", "c", "o", "n", "d", "a", "r", "y">>,
   textDisabled |-> <<"t", "e", "x", "t", "D", "i", "s", "a", "b", "l", "e", "d">>,
   textInverse |-> <<"t", "e", "x", "t", "I", "n", "v", "e", "r", "s", "e">>,
   border |-> <<"b", "o", "r", "d", "e", "r">>,
   borderLight |-> <<"b", "o", "r", "d", "e", "r", "L", "i", "g", "h", "t">>,
   borderDark |-> <<"b", "o", "r", "d", "e", "r", "D", "a", "r", "k">>,
   colors |-> <<"c", "o", "l", "o", "r", "s">>,
   typography |-> <<"t", "y", "p", "o", "g", "r", "a", "p", "h", "y">>,
   fontFamily |-> <<"f", "o", "n", "t", "F", "a", "m", "i", "l", "y">>,
   fontSize |-> <<"f", "o", "n", "t", "S", "i", "z", "e">>,
   fontWeight |-> <<"f", "o", "n", "t", "W", "e", "i", "g", "h", "t">>,
   lineHeight |-> <<"l", "i", "n", "e", "H", "e", "i", "g", "h", "t">>,
   spacing |-> <<"s", "p", "a", "c", "i", "n", "g">>,
   radius |-> <<"r", "a", "d", "i", "u", "s">>,
   shadow |-> <<"s", "h", "a", "d", "o", "w">>,
   transition |-> <<"t", "r", "a", "n", "s", "i", "t", "i", "o", "n">>,
   sans |-> <<"s", "a", "n", "s">>,
   serif |-> <<"s", "e", "r", "i", "f">>,
   mono |-> <<"m", "o", "n", "o">>,
   xs |-> <<"x", "s">>,
   sm |-> <<"s", "m">>,
   base |-> <<"b", "a", "s", "e">>,
   lg |-> <<"l", "g">>,
   xl |-> <<"x", "l">>,
   2xl |-> <<"2", "x", "l">>,
   3xl |-> <<"3", "x", "l">>,
   light |-> <<"l", "i", "g", "h", "t">>,
   normal |-> <<"n", "o", "r", "m", "a", "l">>,
   medium |-> <<"m", "e", "d", "i", "u", "m">>,
   semibold |-> <<"s", "e", "m", "i", "b", "o", "l", "d">>,
   bold |-> <<"b", "o", "l", "d">>,
   tight |-> <<"t", "i", "g", "h", "t">>,
   relaxed |-> <<"r", "e", "l", "a", "x", "e", "d">>,
   none |-> <<"n", "o", "n", "e">>,
   md |-> <<"m", "d">>,
   full |-> <<"f", "u", "l", "l">>,
   fast |-> <<"f", "a", "s", "t">>,
   slow |-> <<"s", "l", "o", "w">>]

lightColors ==
  [primary |-> <<"#6366f1">>,
   secondary |-> <<"#8b5cf6">>,
   accent |-> <<"#f59e0b">>,
   background |-> <<"#ffffff">>,
   surface |-> <<"#f8fafc">>,
   error |-> <<"#ef4444">>,
   warning |-> <<"#f59e0b">>,
   success |-> <<"#22c55e">>,
   info |-> <<"#3b82f6">>,
   textPrimary |-> <<"#1f2937">>,
   textSecondary |-> <<"#6b7280">>,
   textDisabled |-> <<"#9ca3af">>,
   textInverse |-> <<"#ffffff">>,
   border |-> <<"#e5e7eb">>,
   borderLight |-> <<"#f3f4f6">>,
   borderDark |-> <<"#d1d5db">>]

darkColors ==
  [primary |-> <<"#818cf8">>,
   secondary |-> <<"#a78bfa">>,
   accent |-> <<"#fbbf24">>,
   background |-> <<"#111827">>,
   surface |-> <<"#1f2937">>,
   error |-> <<"#f87171">>,
   warning |-> <<"#fbbf24">>,
   success |-> <<"#4ade80">>,
   info |-> <<"#60a5fa">>,
   textPrimary |-> <<"#f9fafb">>,
   textSecondary |-> <<"#d1d5db">>,
   textDisabled |-> <<"#6b7280">>,
   textInverse |-> <<"#1f2937">>,
   border |-> <<"#374151">>,
   borderLight |-> <<"#4b5563">>,
   borderDark |-> <<"#1f2937">>]

oceanColors ==
  [primary |-> <<"#0ea5e9">>,
   secondary |-> <<"#06b6d4">>,
   accent |-> <<"#14b8a6">>,
   background |-> <<"#f0f9ff">>,
   surface |-> <<"#e0f2fe">>,
   error |-> <<"#f43f5e">>,
   warning |-> <<"#fb923c">>,
   success |-> <<"#10b981">>,
   info |-> <<"#0ea5e9">>,
   textPrimary |-> <<"#0c4a6e">>,
   textSecondary |-> <<"#0369a1">>,
   textDisabled |-> <<"#7dd3fc">>,
   textInverse |-> <<"#ffffff">>,
   border |-> <<"#bae6fd">>,
   borderLight |-> <<"#e0f2fe">>,
   borderDark |-> <<"#7dd3fc">>]
oceanFontFamily ==
  [sans |-> JsonString(<<"\"Inter\", system-ui, -apple-system, sans-serif">>),
   serif |-> JsonString(<<"\"Merriweather\", Georgia, serif">>),
   mono |-> JsonString(<<"\"JetBrains Mono\", ui-monospace, monospace">>)]

forestColors ==
  [primary |-> <<"#22c55e">>,
   secondary |-> <<"#16a34a">>,
   accent |-> <<"#84cc16">>,
   background |-> <<"#f0fdf4">>,
   surface |-> <<"#dcfce7">>,
   error |-> <<"#ef4444">>,
   warning |-> <<"#f59e0b">>,
   success |-> <<"#22c55e">>,
   info |-> <<"#3b82f6">>,
   textPrimary |-> <<"#14532d">>,
   textSecondary |-> <<"#166534">>,
   textDisabled |-> <<"#86efac">>,
   textInverse |-> <<"#ffffff">>,
   border |-> <<"#bbf7d0">>,
   borderLight |-> <<"#dcfce7">>,
   borderDark |-> <<"#86efac">>]
forestFontFamily ==
  [sans |-> JsonString(<<"\"Source Sans 3\", system-ui, sans-serif">>),
   serif |-> JsonString(<<"\"Lora\", Georgia, serif">>),
   mono |-> JsonString(<<"\"Fira Code\", ui-monospace, monospace">>)]

sunsetColors ==
  [primary |-> <<"#f97316">>,
   secondary |-> <<"#ea580c">>,
   accent |-> <<"#ec4899">>,
   background |-> <<"#fffbeb">>,
   surface |-> <<"#fef3c7">>,
   error |-> <<"#dc2626">>,
   warning |-> <<"#f59e0b">>,
   success |-> <<"#16a34a">>,
   info |-> <<"#0284c7">>,
   textPrimary |-> <<"#7c2d12">>,
   textSecondary |-> <<"#9a3412">>,
   textDisabled |-> <<"#fdba74">>,
   textInverse |-> <<"#ffffff">>,
   border |-> <<"#fed7aa">>,
   borderLight |-> <<"#fef3c7">>,
   borderDark |-> <<"#fdba74">>]
sunsetFontFamily ==
  [sans |-> JsonString(<<"\"Nunito\", system-ui, sans-serif">>),
   serif |-> JsonString(<<"\"Playfair Display\", Georgia, serif">>),
   mono |-> JsonString(<<"\"IBM Plex Mono\", ui-monospace, monospace">>)]

midnightColors ==
  [primary |-> <<"#a855f7">>,
   secondary |-> <<"#8b5cf6">>,
   accent |-> <<"#ec4899">>,
   background |-> <<"#0f0f23">>,
   surface |-> <<"#1a1a2e">>,
   error |-> <<"#f87171">>,
   warning |-> <<"#fbbf24">>,
   success |-> <<"#4ade80">>,
   info |-> <<"#60a5fa">>,
   textPrimary |-> <<"#e2e8f0">>,
   textSecondary |-> <<"#94a3b8">>,
   textDisabled |-> <<"#475569">>,
   textInverse |-> <<"#0f0f23">>,
   border |-> <<"#334155">>,
   borderLight |-> <<"#475569">>,
   borderDark |-> <<"#1e293b">>]
midnightFontFamily ==
  [sans |-> JsonString(<<"\"Space Grotesk\", system-ui, sans-serif">>),
   serif |-> JsonString(<<"\"Cormorant Garamond\", Georgia, serif">>),
   mono |-> JsonString(<<"\"Cascadia Code\", ui-monospace, monospace">>)]

roseColors ==
  [primary |-> <<"#ec4899">>,
   secondary |-> <<"#db2777">>,
   accent |-> <<"#f472b6">>,
   background |-> <<"#fdf2f8">>,
   surface |-> <<"#fce7f3">>,
   error |-> <<"#dc2626">>,
   warning |-> <<"#f59e0b">>,
   success |-> <<"#16a34a">>,
   info |-> <<"#0284c7">>,
   textPrimary |-> <<"#831843">>,
   textSecondary |-> <<"#9d174d">>,
   textDisabled |-> <<"#f9a8d4">>,
   textInverse |-> <<"#ffffff">>,
   border |-> <<"#fbcfe8">>,
   borderLight |-> <<"#fce7f3">>,
   borderDark |-> <<"#f9a8d4">>]
roseFontFamily ==
  [sans |-> JsonString(<<"\"DM Sans\", system-ui, sans-serif">>),
   serif |-> JsonString(<<"\"Crimson Pro\", Georgia, serif">>),
   mono |-> JsonString(<<"\"Victor Mono\", ui-monospace, monospace">>)]
\* parts.join(separator)
RECURSIVE join(_, _)
join(parts, separator) ==
  IF parts = <<>> THEN <<>>
  ELSE IF Len(parts) = 1 THEN parts[1]
  ELSE parts[1] \o <<separator>> \o join(Tail(parts), separator)

\* this.prefix, '--themed' unless the options give one.
DefaultPrefix == <<"-", "-", "t", "h", "e", "m", "e", "d">>

LowerOf ==
  [A |-> "a", B |-> "b", C |-> "c", D |-> "d", E |-> "e", F |-> "f", G |-> "g",
   H |-> "h", I |-> "i", J |-> "j", K |-> "k", L |-> "l", M |-> "m", N |-> "n",
   O |-> "o", P |-> "p", Q |-> "q", R |-> "r", S |-> "s", T |-> "t", U |-> "u",
   V |-> "v", W |-> "w", X |-> "x", Y |-> "y", Z |-> "z"]
UpperCase == DOMAIN LowerOf
LowerCase == Letters \ UpperCase
toLowerCase(s) == [i \in 1..Len(s) |-> IF s[i] \in UpperCase THEN LowerOf[s[i]] ELSE s[i]]

\* str.replace(/([a-z])([A-Z])/g, '$1-$2')
RECURSIVE DashBetween(_, _)
DashBetween(s, i) ==
  IF i > Len(s) THEN <<>>
  ELSE <<s[i]>>
         \o (IF i < Len(s) /\ s[i] \in LowerCase /\ s[i + 1] \in UpperCase
             THEN <<"-">> ELSE <<>>)
         \o DashBetween(s, i + 1)

\* str.replace(/([A-Z])/g, '-$1')
RECURSIVE DashBefore(_, _)
DashBefore(s, i) ==
  IF i > Len(s) THEN <<>>
  ELSE (IF s[i] \in UpperCase THEN <<"-">> ELSE <<>>) \o <<s[i]>> \o DashBefore(s, i + 1)

camelToKebab(str) == toLowerCase(DashBetween(str, 1))

\* path.split('.')
RECURSIVE split(_)
split(path) ==
  LET dots == {i \in 1..Len(path) : path[i] = "."}
      first == CHOOSE i \in dots : \A j \in dots : i <= j
  IN IF dots = {} THEN <<path>>
     ELSE <<SubSeq(path, 1, first - 1)>> \o split(SubSeq(path, first + 1, Len(path)))

\* The object of a record of the model, its keys spelled out.
ObjectFrom(rec) ==
  JsonObject([key \in {Chars[n] : n \in DOMAIN rec} |->
                rec[CHOOSE n \in DOMAIN rec : Chars[n] = key]])
Strings(rec) == [n \in DOMAIN rec |-> JsonString(rec[n])]
TypographyObject(typography) ==
  ObjectFrom([group \in DOMAIN typography |-> ObjectFrom(typography[group])])

\* tokens: { colors, typography } as the built-in themes give them.
TokensOf(colors, typography) ==
  ObjectFrom([colors |-> ObjectFrom(Strings(colors)),
              typography |-> TypographyObject(typography)])
\* The same with a group added; undefined adds nothing.
WithGroup(tokens, name, value) ==
  IF value = Undefined THEN tokens ELSE JsonObject(Put(tokens.f, Chars[name], value))

BuiltinTokens ==
  {TokensOf(lightColors, defaultTypographyTokens),
   TokensOf(darkColors, defaultTypographyTokens),
   TokensOf(oceanColors, [defaultTypographyTokens EXCEPT !.fontFamily = oceanFontFamily]),
   TokensOf(forestColors, [defaultTypographyTokens EXCEPT !.fontFamily = forestFontFamily]),
   TokensOf(sunsetColors, [defaultTypographyTokens EXCEPT !.fontFamily = sunsetFontFamily]),
   TokensOf(midnightColors, [defaultTypographyTokens EXCEPT !.fontFamily = midnightFontFamily]),
   TokensOf(roseColors, [defaultTypographyTokens EXCEPT !.fontFamily = roseFontFamily])}

\* Object.entries(obj) as a map; of a value that has no keys, nothing.
Entries(obj) == IF obj.t = "object" THEN obj.f ELSE <<>>

\* for (const [key, value] of Object.entries(obj)) result[name(key)] = value,
\* where the names of two keys never coincide.
Assign(literal, obj, kebab) ==
  LET entries == Entries(obj)
      name(key) == literal \o (IF kebab THEN camelToKebab(key) ELSE key)
  IN [n \in {name(key) : key \in DOMAIN entries} |->
        entries[CHOOSE key \in DOMAIN entries : name(key) = n]]

\* Later assignments win.
Merge(f, g) ==
  [k \in (DOMAIN f) \cup (DOMAIN g) |-> IF k \in DOMAIN g THEN g[k] ELSE f[k]]

RECURSIVE MergeAll(_)
MergeAll(maps) ==
  IF maps = <<>> THEN <<>> ELSE Merge(maps[1], MergeAll(Tail(maps)))

flatten(tokens) ==
  LET typography == Get(tokens, Chars.typography)
      optional(name, default) ==
        Coalesce(Get(tokens, Chars[name]), ObjectFrom(Strings(default)))
  IN MergeAll(<<
       Assign(<<"c", "o", "l", "o", "r", "-">>, Get(tokens, Chars.colors), TRUE),
       Assign(<<"f", "o", "n", "t", "-", "f", "a", "m", "i", "l", "y", "-">>,
              Get(typography, Chars.fontFamily), FALSE),
       Assign(<<"f", "o", "n", "t", "-", "s", "i", "z", "e", "-">>,
              Get(typography, Chars.fontSize), FALSE),
       Assign(<<"f", "o", "n", "t", "-", "w", "e", "i", "g", "h", "t", "-">>,
              Get(typography, Chars.fontWeight), FALSE),
       Assign(<<"l", "i", "n", "e", "-", "h", "e", "i", "g", "h", "t", "-">>,
              Get(typography, Chars.lineHeight), FALSE),
       Assign(Chars.spacing \o <<"-">>, optional("spacing", defaultSpacingTokens), FALSE),
       Assign(Chars.radius \o <<"-">>, optional("radius", defaultRadiusTokens), FALSE),
       Assign(Chars.shadow \o <<"-">>, optional("shadow", defaultShadowTokens), FALSE),
       Assign(Chars.transition \o <<"-">>,
              optional("transition", defaultTransitionTokens), FALSE)>>)

\* String(value)
String(value) ==
  IF value.t \in {"string", "number", "boolean"} THEN value.s
  ELSE IF value.t = "object" THEN <<"[object Object]">>
  ELSE IF value.t = "array" THEN <<>>
  ELSE <<value.t>>

toCSSVariables(tokens) ==
  LET flat == flatten(tokens)
      varName(key) == DefaultPrefix \o <<"-">> \o key
  IN [n \in {varName(key) : key \in DOMAIN flat} |->
        String(flat[CHOOSE key \in DOMAIN flat : varName(key) = n])]

RECURSIVE Walk(_, _)
Walk(current, parts) ==
  IF parts = <<>> THEN current
  ELSE IF ~Falsy(current) /\ current.t = "object" /\ parts[1] \in DOMAIN current.f
       THEN Walk(current.f[parts[1]], Tail(parts))
  ELSE Undefined

getToken(tokens, path) == Walk(tokens, split(path))

getVariableName(path) ==
  LET parts == split(path)
  IN IF parts[1] = Chars.colors
     THEN DefaultPrefix \o <<"-", "c", "o", "l", "o", "r", "-">> \o camelToKebab(parts[2])
     ELSE IF parts[1] = Chars.typography
     THEN DefaultPrefix \o <<"-">> \o toLowerCase(DashBefore(parts[2], 1))
            \o <<"-">> \o parts[3]
     ELSE IF parts[1] \in {Chars.spacing, Chars.radius, Chars.shadow, Chars.transition}
     THEN DefaultPrefix \o <<"-">> \o parts[1] \o <<"-">> \o parts[2]
     ELSE DefaultPrefix \o <<"-">> \o join(parts, "-")

\* TokenPath: the paths of the leaves a token set can have.
OptionalDefaults ==
  [spacing |-> defaultSpacingTokens, radius |-> defaultRadiusTokens,
   shadow |-> defaultShadowTokens, transition |-> defaultTransitionTokens]
TokenPaths ==
  {Chars.colors \o <<".">> \o Chars[role] : role \in ColorRoles}
    \cup UNION {{Chars.typography \o <<".">> \o Chars[group] \o <<".">> \o Chars[key] :
                   key \in DOMAIN defaultTypographyTokens[group]} :
                group \in DOMAIN defaultTypographyTokens}
    \cup UNION {{Chars[group] \o <<".">> \o Chars[key] :
                   key \in DOMAIN OptionalDefaults[group]} :
                group \in DOMAIN OptionalDefaults}

NoResolverCall ==
  [call |-> "", path |-> <<>>, value |-> Undefined, name |-> <<>>, map |-> <<>>]
\* new TokenResolver() and the token set it is used on, undefined while it
\* has been given none.
NewResolver(tokens) == [tokens |-> tokens, last |-> NoResolverCall]

(***************************************************************************)
(* The manager's operations as the statements they run, in order: a change *)
(* of the manager's state or of a collaborator's (Do) or an emit.          *)
(***************************************************************************)
Do(what) == <<"do", what>>
Emit(event) == <<"emit", event>>

\* ThemeManager.register
registerSteps == <<Do("themes.set"), Emit("theme:registered")>>

\* ThemeManager.unregister of an id that is registered or not, active or not.
unregisterSteps(exists, active) ==
  IF ~exists THEN <<>>
  ELSE <<Do("themes.delete"), Emit("theme:unregistered")>>
         \o (IF active THEN <<Do("activeTheme = null"), Do("cssInjector.clear")>>
             ELSE <<>>)

\* ThemeManager.apply of a registered id, with or without the write of the
\* active id.
applySteps(save) ==
  <<Do("activeTheme = theme"), Do("cssInjector.inject")>>
    \o (IF save THEN <<Do("setActiveThemeId")>> ELSE <<>>)
    \o <<Emit("theme:changed")>>

\* ThemeManager.generate when the orchestrator and the storage resolve.
generateSteps(autoApply, applySave, autoSave) ==
  <<Emit("theme:generating"), Do("generateTheme")>>
    \o registerSteps
    \o (IF autoApply THEN applySteps(applySave) ELSE <<>>)
    \o (IF autoSave THEN <<Do("saveTheme")>> ELSE <<>>)
    \o <<Emit("theme:generated")>>

Operations ==
  {<<"register", registerSteps>>}
    \cup {<<"unregister", unregisterSteps(e, a)>> : e, a \in BOOLEAN}
    \cup {<<"apply", applySteps(s)>> : s \in BOOLEAN}
    \cup {<<"generate", generateSteps(a, s, v)>> : a, s, v \in BOOLEAN}

\* The handlers subscribed to every event, in the order they were added.
ListenerLists == {<<>>, <<"h1">>, <<"h1", "h2">>}

\* A manager with its listeners and no operation under way.
NewDelivery(listeners) ==
  [listeners |-> listeners, op |-> "", steps |-> <<>>, pc |-> 1, pos |-> 0,
   running |-> FALSE, done |-> <<>>, outcome |-> ""]

\* A handler call with no catch around it: the error leaves emit and the
\* operation.
handlerThrowsUncaught(d) ==
  [d EXCEPT !.running = FALSE, !.outcome = "threw",
            !.done = Append(@, <<"throw", d.steps[d.pc][2]>>)]

\* EventBus.emit, the catch block: console.error, and the loop goes on.
handlerThrows(d) ==
  [d EXCEPT !.running = FALSE,
            !.done = Append(@, <<"console.error", d.steps[d.pc][2]>>)]

(***************************************************************************)
(* ThemeManager.init: the initialized flag, options.storage.autoLoad and   *)
(* options.defaultTheme, with the number of loads from storage and of      *)
(* themes init has applied since the manager was made, whether an init of  *)
(* it rejected, the ids unregistered so far, the operations started and    *)
(* the managers made on this storage.                                      *)
(***************************************************************************)
MaxBootOps == 3
MaxManagers == 2

NewBoot(autoLoad, defaultTheme) ==
  [initialized |-> FALSE, autoLoad |-> autoLoad, defaultTheme |-> defaultTheme,
   loads |-> 0, applied |-> 0, failed |-> FALSE, dropped |-> {},
   ops |-> 0, managers |-> 1]

\* A load that registers nothing.
mergeSavedNone(ts, savedThemes) == ts

\* for (const theme of savedThemes) if (!this.themes.has(theme.id)) set it.
mergeSaved(ts, savedThemes) ==
  [id \in (DOMAIN ts) \cup (DOMAIN savedThemes) |->
     IF MapHas(ts, id) THEN ts[id] ELSE savedThemes[id]]

\* An init that prefers the default theme to the saved one.
initTargetDefaultFirst(ts, loaded, savedThemeId, defaultTheme) ==
  IF defaultTheme # NoId /\ MapHas(ts, defaultTheme) THEN defaultTheme
  ELSE IF loaded /\ savedThemeId # NoId /\ MapHas(ts, savedThemeId) THEN savedThemeId
  ELSE NoId

\* The id init applies: the saved id when storage was read and the id is
\* registered, else the default theme when registered, else none.
initTarget(ts, loaded, savedThemeId, defaultTheme) ==
  IF loaded /\ savedThemeId # NoId /\ MapHas(ts, savedThemeId) THEN savedThemeId
  ELSE IF defaultTheme # NoId /\ MapHas(ts, defaultTheme) THEN defaultTheme
  ELSE NoId

\* What a former manager left in storage: a generated theme it saved, a
\* theme saved under the id of a built-in one.
savedAiTheme == [id |-> AiId(0), source |-> "ai", custom |-> NoCustom]
savedLightTheme == [id |-> LightId, source |-> "user", custom |-> NoCustom]

(***************************************************************************)
(* The bindings (react/ThemeProvider.tsx, vue/useAITheme.ts and the Vue    *)
(* plugin): the flag the provider or plugin holds, the flag local to the   *)
(* composable, whether each holds an error, the generate / adjust calls in *)
(* flight, the calls started, whether two calls through one entry point    *)
(* have overlapped, and how the last call went.                            *)
(***************************************************************************)
MaxBindingCalls == 3

NewBinding(framework) ==
  [framework |-> framework, provided |-> FALSE, local |-> FALSE,
   providedError |-> FALSE, localError |-> FALSE,
   inFlight |-> <<>>, started |-> 0, overlapped |-> FALSE, last |-> ""]

(***************************************************************************)
(* StorageManager (storage/StorageManager.ts) with its two adapters.  The  *)
(* environment is whether localStorage accepts a write and whether the     *)
(* global indexedDB exists.                                                *)
(***************************************************************************)
BackendTypes == {"none", "localStorage", "indexedDB"}
IndexedDBUnavailable == "IndexedDB is not available"
NoStorageCall ==
  [op |-> "", outcome |-> "", error |-> NoError, id |-> NoId,
   theme |-> NoTheme, themes |-> EmptyMap]
NewStorageManager(type, localStorageWorks, indexedDBExists) ==
  [type |-> type,
   localStorageWorks |-> localStorageWorks,
   indexedDBExists |-> indexedDBExists,
   initialized |-> FALSE,
   db |-> FALSE,
   activeThemeKey |-> NoId,
   themesKey |-> EmptyMap,
   themesStore |-> EmptyMap,
   result |-> NoStorageCall,
   nops |-> 0]

(***************************************************************************)
(* new ThemeManager(options): the built-in themes are registered, nothing  *)
(* is active, the orchestrator exists when options.ai is given and the     *)
(* storage manager unless options.storage.type is 'none'.                  *)
(***************************************************************************)
Init ==
  /\ themes = MapSet(MapSet(EmptyMap, LightId, lightTheme), DarkId, darkTheme)
  /\ activeTheme = NoTheme
  /\ css = NoId
  /\ aiOrchestrator \in BOOLEAN
  /\ optionsAI = (IF aiOrchestrator THEN ConstructorAI ELSE NoAI)
  /\ orchestratorAI = optionsAI
  /\ storageType \in StorageTypes
  /\ storageManager = (storageType # "none")
  /\ storageAutoSave \in (IF storageType = "none" THEN {TRUE} ELSE BOOLEAN)
  /\ persistedActiveId = NoId
  /\ persistedThemes = EmptyMap
  /\ now = 0
  /\ calls = EmptyBag
  /\ settled = IdleCall
  /\ nops = 0
  /\ lastOp = NoOp
  /\ retry = IdleRetry
  /\ orch = NewOrchestrator(TRUE)
  /\ bus = NewEventBus
  /\ store = NewStorageManager("none", FALSE, FALSE)
  /\ engine = NewEngine(<<>>)
  /\ resolver = NewResolver(Undefined)
  /\ delivery = NewDelivery(<<>>)
  /\ boot = NewBoot(TRUE, NoId)
  /\ binding = NewBinding("react")

(***************************************************************************)
(* The synchronous operations, as functions of the manager's fields.       *)
(* Each returns the new fields, the returned value and the emitted events. *)
(***************************************************************************)
RegisterIds == {LightId, CustomId}

\* ThemeManager.register: themes.set(id, theme), emit theme:registered.
register(ts, theme) ==
  [themes |-> MapSet(ts, theme.id, theme),
   events |-> <<EvRegistered(theme)>>]

\* An unregister that leaves the removed theme active and rendered.
unregisterKeepsActive(ts, active, style, themeId) ==
  IF MapHas(ts, themeId)
  THEN [themes |-> MapDelete(ts, themeId), activeTheme |-> active,
        css |-> style, ret |-> "true", events |-> <<EvUnregistered(themeId)>>]
  ELSE [themes |-> ts, activeTheme |-> active, css |-> style,
        ret |-> "false", events |-> <<>>]

\* ThemeManager.unregister
unregister(ts, active, style, themeId) ==
  LET exists == MapHas(ts, themeId)
      wasActive == active # NoTheme /\ active.id = themeId
  IN  IF exists
      THEN [themes |-> MapDelete(ts, themeId),
            activeTheme |-> IF wasActive THEN NoTheme ELSE active,
            css |-> IF wasActive THEN NoId ELSE style,
            ret |-> "true",
            events |-> <<EvUnregistered(themeId)>>]
      ELSE [themes |-> ts, activeTheme |-> active, css |-> style,
            ret |-> "false", events |-> <<>>]

\* ThemeManager.destroy: cssInjector.clear(), eventBus.clear(), themes.clear(),
\* activeTheme = null. The orchestrator and the storage manager are kept.
destroy(ai, sm) ==
  [themes |-> EmptyMap, activeTheme |-> NoTheme, css |-> NoId,
   aiOrchestrator |-> ai, storageManager |-> sm]

\* An updateThemeCustom that patches the registry and not the active theme.
updateThemeCustomRegistryOnly(ts, active, themeId, data) ==
  IF ~MapHas(ts, themeId)
  THEN [themes |-> ts, activeTheme |-> active, ret |-> "threw"]
  ELSE [themes |-> MapSet(ts, themeId, [ts[themeId] EXCEPT !.custom = data]),
        activeTheme |-> active, ret |-> "undefined"]

\* ThemeManager.updateThemeCustom: throws for an unknown id, else replaces
\* the custom field of the registered theme and, when the active theme has
\* this id, points activeTheme at the patched theme.
updateThemeCustom(ts, active, themeId, data) ==
  IF ~MapHas(ts, themeId)
  THEN [themes |-> ts, activeTheme |-> active, ret |-> "threw"]
  ELSE LET updated == [ts[themeId] EXCEPT !.custom = data]
       IN  [themes |-> MapSet(ts, themeId, updated),
            activeTheme |-> IF active # NoTheme /\ active.id = themeId
                            THEN updated ELSE active,
            ret |-> "undefined"]

Op(name, id, data, ret, events) ==
  [name |-> name, id |-> id, data |-> data, pre |-> Pre, ret |-> ret,
   events |-> events]

Register(id) ==
  /\ nops < MaxOps
  /\ nops' = nops + 1
  /\ LET theme == [id |-> id, source |-> "user", custom |-> NoCustom]
         r == register(themes, theme)
     IN  /\ themes' = r.themes
         /\ lastOp' = Op("register", id, NoCustom, "undefined", r.events)
  /\ settled' = IdleCall
  /\ UNCHANGED collabVars
  /\ UNCHANGED <<activeTheme, css, aiOrchestrator, orchestratorAI, storageManager, configVars,
                 storeVars, now, calls>>

Unregister(id) ==
  /\ nops < MaxOps
  /\ nops' = nops + 1
  /\ LET r == unregister(themes, activeTheme, css, id)
     IN  /\ themes' = r.themes
         /\ activeTheme' = r.activeTheme
         /\ css' = r.css
         /\ lastOp' = Op("unregister", id, NoCustom, r.ret, r.events)
  /\ settled' = IdleCall
  /\ UNCHANGED collabVars
  /\ UNCHANGED <<aiOrchestrator, orchestratorAI, storageManager, configVars, storeVars, now, calls>>

UpdateThemeCustom(id, data) ==
  /\ nops < MaxOps
  /\ nops' = nops + 1
  /\ LET r == updateThemeCustom(themes, activeTheme, id, data)
     IN  /\ themes' = r.themes
         /\ activeTheme' = r.activeTheme
         /\ lastOp' = Op("updateThemeCustom", id, data, r.ret, <<>>)
  /\ settled' = IdleCall
  /\ UNCHANGED collabVars
  /\ UNCHANGED <<css, aiOrchestrator, orchestratorAI, storageManager, configVars, storeVars,
                 now, calls>>

Destroy ==
  /\ nops < MaxOps
  /\ nops' = nops + 1
  /\ LET r == destroy(aiOrchestrator, storageManager)
     IN  /\ themes' = r.themes
         /\ activeTheme' = r.activeTheme
         /\ css' = r.css
         /\ aiOrchestrator' = r.aiOrchestrator
         /\ UNCHANGED orchestratorAI
         /\ storageManager' = r.storageManager
  /\ lastOp' = Op("destroy", NoId, NoCustom, "undefined", <<>>)
  /\ settled' = IdleCall
  /\ UNCHANGED collabVars
  /\ UNCHANGED <<configVars, storeVars, now, calls>>

\* ThemeManager.getAIConfig: provider and model of options.ai, null without.
getAIConfig(ai) ==
  IF ai = NoAI THEN NoAIConfig
  ELSE [provider |-> ai.provider[2], model |-> ai.model]

\* ThemeManager.configureAI: a new orchestrator replaces the current one.
ConfigureAI(options) ==
  /\ nops < MaxOps
  /\ nops' = nops + 1
  /\ aiOrchestrator' = TRUE
  /\ orchestratorAI' = options
  /\ lastOp' = Op("configureAI", NoId, NoCustom, "undefined", <<>>)
  /\ settled' = IdleCall
  /\ UNCHANGED collabVars
  /\ UNCHANGED <<themes, activeTheme, css, storageManager, configVars,
                 storeVars, now, calls>>

(***************************************************************************)
(* The asynchronous calls.  A call in flight is a record in the bag calls; *)
(* its pc is the await it is suspended at.  The step that settles a call   *)
(* hands its record to the caller (settled) and takes it out of the bag.   *)
(***************************************************************************)
Quiescent == calls = EmptyBag
CanStart == BagCardinality(calls) < MaxCalls /\ nops < MaxOps

Settles(r) == r.pc \in {"resolved", "rejected"}

\* A new call that ran up to its first await, or to its end, as r.
Start(r) ==
  /\ calls' = IF Settles(r) THEN calls ELSE calls (+) SetToBag({r})
  /\ settled' = IF Settles(r) THEN r ELSE IdleCall
  /\ lastOp' = NoOp
  /\ UNCHANGED collabVars

\* The call c ran up to its next await, or to its end, as r.
Continue(c, r) ==
  /\ calls' = IF Settles(r) THEN calls (-) SetToBag({c})
                            ELSE (calls (-) SetToBag({c})) (+) SetToBag({r})
  /\ settled' = IF Settles(r) THEN r ELSE IdleCall
  /\ lastOp' = NoOp
  /\ UNCHANGED collabVars

\* A catch block that hands the thrown value to the event as it is.
ToErrorUnwrapped(e) == e

\* error instanceof Error ? error : new Error(String(error))
ToError(e) == IF e \in NonErrorValues THEN "Error(rawValue)" ELSE e

\* An apply that assigns the looked-up theme before it tests it.
applyEnterAssignsFirst(r, ts, active, style, sm, autoSave, themeId) ==
  [threw |-> ~MapHas(ts, themeId), awaits |-> FALSE,
   activeTheme |-> IF MapHas(ts, themeId) THEN ts[themeId] ELSE NoTheme,
   css |-> style,
   call |-> IF MapHas(ts, themeId)
            THEN [r EXCEPT !.target = ts[themeId], !.previousTheme = active,
                           !.log = @ \o <<Eff("active:set", ts[themeId]),
                                          Eff("css:inject", ts[themeId]),
                                          EvChanged(ts[themeId], active)>>]
            ELSE r]

\* ThemeManager.apply up to its await: look the theme up, throw when it is
\* missing, else swap the active pointer, inject the CSS and either start
\* the write of the active id (awaits) or emit theme:changed.
applyEnter(r, ts, active, style, sm, autoSave, themeId) ==
  IF ~MapHas(ts, themeId)
  THEN [threw |-> TRUE, awaits |-> FALSE, activeTheme |-> active, css |-> style,
        call |-> r]
  ELSE LET theme == ts[themeId]
           r1 == [r EXCEPT !.target = theme, !.previousTheme = active,
                           !.log = @ \o <<Eff("active:set", theme),
                                          Eff("css:inject", theme)>>]
       IN  IF sm /\ autoSave
           THEN [threw |-> FALSE, awaits |-> TRUE, activeTheme |-> theme,
                 css |-> theme.id, call |-> r1]
           ELSE [threw |-> FALSE, awaits |-> FALSE, activeTheme |-> theme,
                 css |-> theme.id,
                 call |-> [r1 EXCEPT !.log = Append(@, EvChanged(theme, active))]]

\* ThemeManager.generate, the guard and the start of the try block.
generateEnter(r, ai) ==
  IF ~ai
  THEN [r EXCEPT !.pc = "rejected", !.error = NotConfiguredError]
  ELSE [r EXCEPT !.pc = "awaitAI",
                 !.log = <<EvGenerating(r.prompt),
                           Eff("orchestrator:call", NoTheme)>>]

\* A catch block that rethrows without emitting theme:error.
generateCatchSilent(r, e) == [r EXCEPT !.pc = "rejected", !.error = e]

\* ThemeManager.generate, the catch block.
generateCatch(r, e) ==
  [r EXCEPT !.pc = "rejected", !.error = e,
            !.log = Append(@, EvError(ToError(e), "generate"))]

\* A return that resolves without emitting theme:generated.
generateReturnUnannounced(r) == [r EXCEPT !.pc = "resolved"]

\* ThemeManager.generate, emit theme:generated and return.
generateReturn(r) ==
  [r EXCEPT !.pc = "resolved",
            !.log = Append(@, EvGenerated(r.theme, r.prompt))]

\* An auto-save that is skipped: theme:generated without the saved record.
generateSaveSkipped(r, sm) == generateReturn(r)

\* An auto-save that ignores options.autoSave.
generateSaveAlways(r, sm) ==
  IF sm THEN [r EXCEPT !.pc = "saveStore"] ELSE generateReturn(r)

\* ThemeManager.generate, the auto-save test.
generateSave(r, sm) ==
  IF r.opts.autoSave /\ sm THEN [r EXCEPT !.pc = "saveStore"]
                           ELSE generateReturn(r)

\* The id of a generated theme: `ai-${Date.now()}`.
generatedId(t) == AiId(t)

NewCall(kind, id, prompt, opts) ==
  [IdleCall EXCEPT !.kind = kind, !.id = id, !.prompt = prompt, !.opts = opts,
                   !.pre = Pre]

ApplyStart(id) ==
  /\ CanStart
  /\ nops' = nops + 1
  /\ LET a == applyEnter(NewCall("apply", id, "", DefaultOpts), themes,
                         activeTheme, css, storageManager, storageAutoSave, id)
     IN  /\ activeTheme' = a.activeTheme
         /\ css' = a.css
         /\ Start(
              IF a.threw THEN [a.call EXCEPT !.pc = "rejected", !.error = NotFoundError]
              ELSE IF a.awaits THEN [a.call EXCEPT !.pc = "applyStore"]
              ELSE [a.call EXCEPT !.pc = "resolved"])
  /\ UNCHANGED <<themes, aiOrchestrator, orchestratorAI, storageManager, configVars, storeVars, now>>

\* options.baseTheme selects adjustTheme, else generateTheme: either way one
\* call of the orchestrator that resolves with tokens or rejects.
GenerateStart(prompt, opts) ==
  /\ CanStart
  /\ nops' = nops + 1
  /\ Start(generateEnter(NewCall("generate", NoId, prompt, opts), aiOrchestrator))
  /\ UNCHANGED <<managerVars, configVars, storeVars, now>>

\* The orchestrator rejects (provider, parse or schema failure).
AIReject(c, e) ==
  /\ c.pc = "awaitAI"
  /\ Continue(c, generateCatch(c, e))
  /\ UNCHANGED <<managerVars, configVars, storeVars, now, nops>>

\* The orchestrator resolves: read the clock (t: the millisecond of the last
\* reading, or a later one), build the theme, register it, then apply it
\* (up to apply's await) or go on to the auto-save.
AIResolve(c, t) ==
  /\ c.pc = "awaitAI"
  /\ t \in {now, now + 1}
  /\ t <= MaxTime
  /\ now' = t
  /\ LET r == c
         theme == [id |-> generatedId(t), source |-> "ai", custom |-> NoCustom]
         reg == register(themes, theme)
         r1 == [r EXCEPT !.theme = theme,
                         !.log = (@ \o <<Eff("registry:set", theme)>>) \o reg.events]
         a == applyEnter(r1, reg.themes, activeTheme, css, storageManager,
                         storageAutoSave, theme.id)
     IN  /\ themes' = reg.themes
         /\ IF r.opts.autoApply
            THEN /\ activeTheme' = a.activeTheme
                 /\ css' = a.css
                 /\ Continue(c, IF a.awaits THEN [a.call EXCEPT !.pc = "applyStore"]
                                            ELSE [a.call EXCEPT !.pc = "afterApply"])
            ELSE /\ Continue(c, generateSave(r1, storageManager))
                 /\ UNCHANGED <<activeTheme, css>>
  /\ UNCHANGED <<aiOrchestrator, orchestratorAI, storageManager, configVars, storeVars, nops>>

\* StorageManager.setActiveThemeId writes the active id.
ApplyStoreWrite(c) ==
  /\ c.pc = "applyStore"
  /\ persistedActiveId' = c.target.id
  /\ Continue(c, [c EXCEPT !.pc = "applyEmit",
                    !.log = Append(@, Eff("persist:activeId", c.target))])
  /\ UNCHANGED <<managerVars, configVars, persistedThemes, now, nops>>

\* StorageManager.setActiveThemeId rejects: StorageManager.init fails when
\* IndexedDB cannot be opened, localStorage.setItem throws when the quota
\* is exceeded.
ApplyStoreFail(c) ==
  /\ c.pc = "applyStore"
  /\ Continue(c, IF c.kind = "apply"
                 THEN [c EXCEPT !.pc = "rejected", !.error = StorageError]
                 ELSE generateCatch(c, StorageError))
  /\ UNCHANGED <<managerVars, configVars, storeVars, now, nops>>

\* ThemeManager.apply after its await: emit theme:changed.
ApplyEmit(c) ==
  /\ c.pc = "applyEmit"
  /\ Continue(c, [c EXCEPT
        !.pc = IF c.kind = "apply" THEN "resolved" ELSE "afterApply",
        !.log = Append(@, EvChanged(c.target, c.previousTheme))])
  /\ UNCHANGED <<managerVars, configVars, storeVars, now, nops>>

\* ThemeManager.generate after `await this.apply(theme.id)`.
GenerateAfterApply(c) ==
  /\ c.pc = "afterApply"
  /\ Continue(c, generateSave(c, storageManager))
  /\ UNCHANGED <<managerVars, configVars, storeVars, now, nops>>

\* StorageManager.saveTheme writes the theme record.
SaveStoreWrite(c) ==
  /\ c.pc = "saveStore"
  /\ persistedThemes' = MapSet(persistedThemes, c.theme.id, c.theme)
  /\ Continue(c, [c EXCEPT !.pc = "afterSave",
                    !.log = Append(@, Eff("persist:theme", c.theme))])
  /\ UNCHANGED <<managerVars, configVars, persistedActiveId, now, nops>>

\* StorageManager.saveTheme rejects (IndexedDB failure, localStorage quota).
SaveStoreFail(c) ==
  /\ c.pc = "saveStore"
  /\ Continue(c, generateCatch(c, StorageError))
  /\ UNCHANGED <<managerVars, configVars, storeVars, now, nops>>

\* ThemeManager.generate after `await this.storageManager.saveTheme(theme)`.
GenerateFinish(c) ==
  /\ c.pc = "afterSave"
  /\ Continue(c, generateReturn(c))
  /\ UNCHANGED <<managerVars, configVars, storeVars, now, nops>>

ApplyIds == {LightId, DarkId, MissingId}
UnregisterIds == {LightId, MissingId} \cup {id \in DOMAIN themes : id[1] = "ai"}
UpdateIds == {LightId, DarkId, MissingId}

StartCall ==
  \/ \E id \in ApplyIds : ApplyStart(id)
  \/ \E p \in Prompts, o \in GenerateOptions : GenerateStart(p, o)

ContinueCall ==
  \E c \in BagToSet(calls) :
    \/ \E t \in 0..MaxTime : AIResolve(c, t)
    \/ \E e \in AIErrors : AIReject(c, e)
    \/ ApplyStoreWrite(c)
    \/ ApplyStoreFail(c)
    \/ ApplyEmit(c)
    \/ GenerateAfterApply(c)
    \/ SaveStoreWrite(c)
    \/ SaveStoreFail(c)
    \/ GenerateFinish(c)

CallerOp ==
  \/ \E id \in RegisterIds : Register(id)
  \/ \E id \in UnregisterIds : Unregister(id)
  \/ \E id \in UpdateIds, d \in CustomData : UpdateThemeCustom(id, d)
  \/ Destroy
  \/ \E options \in AIOptions : ConfigureAI(options)

\* Calls and operations in any interleaving the event loop allows.
Next == StartCall \/ ContinueCall \/ CallerOp

Spec == Init /\ [][Next]_vars

\* One call at a time: nothing else runs between a call's start and its end.
NextSeq ==
  \/ Quiescent /\ StartCall
  \/ ContinueCall
  \/ Quiescent /\ CallerOp

SpecSeq == Init /\ [][NextSeq]_vars

(***************************************************************************)
(* One call of OpenAIProvider.complete: BaseAIProvider.retry around an      *)
(* attempt that sends the request with fetchWithTimeout, tests the status  *)
(* and reads the reply.                                                    *)
(***************************************************************************)
\* fn() is called: the request is sent and the abort timer is armed.
beginAttempt(r) ==
  [r EXCEPT !.pc = "attempt", !.attempts = @ + 1, !.phase = "headers",
            !.ok = FALSE, !.overdue = FALSE]

\* A catch block that keeps the first error it saw.
retryCatchKeepsFirst(r, e) ==
  LET r1 == [r EXCEPT !.failures = Append(@, e), !.phase = "",
                      !.lastError = IF r.lastError = NoError THEN ToError(e) ELSE @,
                      !.lastErrorOf = IF r.lastError = NoError THEN r.attempts ELSE @]
  IN  IF r.i < r.retries
      THEN [r1 EXCEPT !.pc = "sleep", !.sleeps = Append(@, backoff(r.i))]
      ELSE [r1 EXCEPT !.pc = "rejected", !.i = @ + 1]

\* BaseAIProvider.retry, the catch block and what follows it: remember the
\* error, sleep when an attempt is left, else leave the loop and throw.
retryCatch(r, e) ==
  LET r1 == [r EXCEPT !.failures = Append(@, e), !.phase = "",
                      !.lastError = ToError(e), !.lastErrorOf = r.attempts]
  IN  IF r.i < r.retries
      THEN [r1 EXCEPT !.pc = "sleep", !.sleeps = Append(@, backoff(r.i))]
      ELSE [r1 EXCEPT !.pc = "rejected", !.i = @ + 1]

\* provider.complete(messages): retry(fn) with the configured maxRetries.
Complete(cfg) ==
  /\ retry.pc = "idle"
  /\ retry' = beginAttempt([IdleRetry EXCEPT !.retries = retriesOf(cfg)])
  /\ UNCHANGED <<themeManagerVars, orch, bus, libVars>>

\* fetchWithTimeout: the timer fires while fetch is pending, the request is
\* aborted with the timeout error.
FetchTimeout ==
  /\ retry.pc = "attempt" /\ retry.phase = "headers"
  /\ retry' = retryCatch([retry EXCEPT !.overdue = TRUE], TimeoutError)
  /\ UNCHANGED <<themeManagerVars, orch, bus, libVars>>

\* fetch rejects before the timer fires.
FetchNetworkError ==
  /\ retry.pc = "attempt" /\ retry.phase = "headers"
  /\ retry' = retryCatch(retry, NetworkError)
  /\ UNCHANGED <<themeManagerVars, orch, bus, libVars>>

\* fetch resolves with the response: finally clearTimeout(timeoutId).
ResponseArrives(ok) ==
  /\ retry.pc = "attempt" /\ retry.phase = "headers"
  /\ retry' = [retry EXCEPT !.phase = "body", !.ok = ok]
  /\ UNCHANGED <<themeManagerVars, orch, bus, libVars>>

\* config.timeout ms have passed since the request was sent, no timer being
\* armed.
DeadlinePasses ==
  /\ retry.pc = "attempt" /\ retry.phase = "body"
  /\ ~retry.overdue
  /\ retry' = [retry EXCEPT !.overdue = TRUE]
  /\ UNCHANGED <<themeManagerVars, orch, bus, libVars>>

\* response.text() / response.json() resolves: a status that is not ok and
\* a reply without content throw, else the content is returned.
BodyRead(hasContent) ==
  /\ retry.pc = "attempt" /\ retry.phase = "body"
  /\ retry' = IF ~retry.ok THEN retryCatch(retry, HttpError)
               ELSE IF ~hasContent THEN retryCatch(retry, EmptyReplyError)
               ELSE [retry EXCEPT !.pc = "resolved", !.phase = "",
                                  !.result = retry.attempts]
  /\ UNCHANGED <<themeManagerVars, orch, bus, libVars>>

\* this.sleep(...) resolves: i++ and the next attempt.
SleepDone ==
  /\ retry.pc = "sleep"
  /\ retry' = beginAttempt([retry EXCEPT !.i = @ + 1])
  /\ UNCHANGED <<themeManagerVars, orch, bus, libVars>>

NextProvider ==
  \/ \E cfg \in MaxRetriesConfigs : Complete(cfg)
  \/ FetchTimeout
  \/ FetchNetworkError
  \/ \E ok \in BOOLEAN : ResponseArrives(ok)
  \/ DeadlinePasses
  \/ \E hasContent \in BOOLEAN : BodyRead(hasContent)
  \/ SleepDone

\* A provider on its own: the manager is built without AI and storage and
\* is left alone.
InitProvider == Init /\ ~aiOrchestrator /\ storageType = "none"

(***************************************************************************)
(* The event bus: on, once, off, clear(event) and emit, called by the      *)
(* program or from inside a handler an emit is running; emit is a loop     *)
(* over the Set it read from the map when it was called.                   *)
(***************************************************************************)
MapSeq(q, F(_)) == [i \in DOMAIN q |-> F(q[i])]

\* The functions in a Set, in insertion order.
Live(set) == MapSeq(SelectSeq(set, LAMBDA en : en.live), LAMBDA en : en.fn)

Has(set, fn) == \E i \in DOMAIN set : set[i].fn = fn /\ set[i].live

\* listenerCount(event)
listenerCount(b, e) == Len(Live(b.listeners[e]))

\* The Set a running emit iterates: the one in the map while that is the
\* Set it read, else the Set it still holds.
SetOf(b, f) == IF f.attached THEN b.listeners[f.event] ELSE f.own

\* The entry the iterator of frame f comes to next, 0 at the end.
NextIdx(b, f) ==
  LET rest == {i \in DOMAIN SetOf(b, f) : i > f.pos /\ SetOf(b, f)[i].live}
  IN  IF rest = {} THEN 0 ELSE CHOOSE i \in rest : \A j \in rest : i <= j

\* listeners.delete(event): the running emits of the event keep the Set.
Detach(b, e) ==
  [b EXCEPT !.listeners[e] = NoSet,
            !.stack = MapSeq(@, LAMBDA f :
              IF f.event = e /\ f.attached
              THEN [f EXCEPT !.attached = FALSE, !.own = b.listeners[e]]
              ELSE f)]

\* Deleted entries matter to the iterators only.
Compact(b) ==
  [b EXCEPT !.listeners = [e \in Events |->
     IF \E i \in DOMAIN b.stack : b.stack[i].event = e /\ b.stack[i].attached
     THEN b.listeners[e]
     ELSE SelectSeq(b.listeners[e], LAMBDA en : en.live)]]

\* The running emits of event e that began before fn was taken off.
OffDuring(b, e, fn) ==
  [b EXCEPT !.stack = MapSeq(@, LAMBDA f :
     IF f.event = e THEN [f EXCEPT !.offDuring = @ \cup {fn}] ELSE f)]

\* The running emits whose loop is over the Set of e in the map and has
\* not passed entry i: what they will call is no longer what was there
\* when they began.
Changed(b, e, i) ==
  [b EXCEPT !.stack = MapSeq(@, LAMBDA f :
     IF f.event = e /\ f.attached /\ f.pos < i
     THEN [f EXCEPT !.changed = TRUE] ELSE f)]

Index(set, fn) == CHOOSE i \in DOMAIN set : set[i].fn = fn /\ set[i].live

\* on(event, handler): Set.add, the unsubscribe function is off(event, handler).
on(b, e, fn) ==
  [(IF Has(b.listeners[e], fn) THEN b
    ELSE Changed([b EXCEPT !.listeners[e] = Append(@, [fn |-> fn, live |-> TRUE])],
                 e, Len(b.listeners[e]) + 1))
   EXCEPT !.unsubscribed = @ \ {<<e, fn>>}]

\* An off that drops every listener of the event.
offClearsEvent(b, e, fn) ==
  [Detach(b, e) EXCEPT !.unsubscribed = @ \cup {<<e, fn>>}]

\* off(event, handler): Set.delete, and the Set leaves the map when empty.
off(b, e, fn) ==
  LET set == b.listeners[e]
      del == MapSeq(set, LAMBDA en : IF en.fn = fn THEN [en EXCEPT !.live = FALSE]
                                     ELSE en)
      b1 == IF Has(set, fn)
            THEN Changed([b EXCEPT !.listeners[e] = del], e, Index(set, fn))
            ELSE b
      b2 == IF set # NoSet /\ Live(del) = <<>> THEN Detach(b1, e) ELSE b1
  IN  [OffDuring(b2, e, fn) EXCEPT !.unsubscribed = @ \cup {<<e, fn>>}]

\* onceHandler, before it calls the handler: this.off(event, onceHandler).
onceHandler(b, e, fn) == off(b, e, fn)

\* { ...payload, timestamp: Date.now() } without the timestamp.
fullPayloadBare(data, t) == [data |-> data]

\* { ...payload, timestamp: Date.now() }
fullPayload(data, t) == [data |-> data, timestamp |-> t]

\* Date.now(): the clock of the bus moves with every call made of it.
DateNow(b) == b.nops

\* Calls come from the program, or from the handler the innermost emit runs.
CanCall == IF bus.stack = <<>> THEN TRUE ELSE bus.stack[Len(bus.stack)].running

BusCall == CanCall /\ bus.nops < MaxBusOps

Step(b) ==
  /\ bus' = Compact(b)
  /\ UNCHANGED <<themeManagerVars, retry, orch, libVars>>

Counted(b) == [b EXCEPT !.nops = @ + 1]

BusOn(e, h) ==
  /\ BusCall
  /\ Step(Counted(on(bus, e, Fn(h))))

\* once(event, handler): on(event, onceHandler) with a new wrapper.
BusOnce(e, h) ==
  /\ BusCall
  /\ Len(bus.onceOf) < MaxOnce
  /\ Step(Counted(on([bus EXCEPT !.onceOf = Append(@, h), !.fired = Append(@, 0)],
                      e, OnceFn(Len(bus.onceOf) + 1))))

\* off(event, handler), or the function on() returned for the handler.
BusOff(e, h) ==
  /\ BusCall
  /\ Step(Counted(off(bus, e, Fn(h))))

\* The function once() returned: off(event, onceHandler).
BusOffOnce(e, k) ==
  /\ BusCall
  /\ Step(Counted(off(bus, e, OnceFn(k))))

\* clear(event)
BusClear(e) ==
  /\ BusCall
  /\ Step(Counted(Detach(bus, e)))

\* emit(event, payload) up to its loop.
BusEmit(e, data) ==
  /\ BusCall
  /\ Len(bus.stack) < MaxDepth
  /\ Step(Counted([bus EXCEPT !.stack = Append(@,
        [event |-> e, payload |-> fullPayload(data, DateNow(bus)),
         attached |-> bus.listeners[e] # NoSet, own |-> NoSet, pos |-> 0,
         running |-> FALSE, invoked |-> <<>>,
         snapshot |-> Live(bus.listeners[e]), changed |-> FALSE,
         offDuring |-> {}])]))

\* The loop of the innermost emit calls the next handler.
EmitStep ==
  /\ bus.stack # <<>>
  /\ LET d == Len(bus.stack)
         f == bus.stack[d]
         i == NextIdx(bus, f)
     IN  /\ ~f.running
         /\ i # 0
         /\ LET fn == SetOf(bus, f)[i].fn
                b1 == [bus EXCEPT
                        !.stack[d].pos = i,
                        !.stack[d].running = TRUE,
                        !.stack[d].invoked = Append(@,
                           [fn |-> fn, payload |-> f.payload,
                            late |-> <<f.event, fn>> \in bus.unsubscribed
                                     /\ fn \notin f.offDuring])]
            IN  IF fn[1] = "once"
                THEN Step([onceHandler(b1, f.event, fn)
                             EXCEPT !.fired[fn[2]] = @ + 1])
                ELSE Step(b1)

\* The handler returns.
HandlerReturns ==
  /\ bus.stack # <<>>
  /\ bus.stack[Len(bus.stack)].running
  /\ Step([bus EXCEPT !.stack[Len(bus.stack)].running = FALSE])

\* The handler throws: caught and logged, the loop goes on.
HandlerThrows ==
  /\ bus.stack # <<>>
  /\ bus.stack[Len(bus.stack)].running
  /\ LET d == Len(bus.stack)
     IN  Step([bus EXCEPT !.stack[d].running = FALSE])

\* The loop is at the end of its Set.
AtEnd(b, f) == ~f.running /\ NextIdx(b, f) = 0

\* emit returns.
EmitEnd ==
  /\ bus.stack # <<>>
  /\ AtEnd(bus, bus.stack[Len(bus.stack)])
  /\ Step([bus EXCEPT !.stack = SubSeq(@, 1, Len(@) - 1)])

NextBus ==
  \/ \E e \in Events, h \in Handlers : BusOn(e, h)
  \/ \E e \in Events, h \in Handlers : BusOnce(e, h)
  \/ \E e \in Events, h \in Handlers : BusOff(e, h)
  \/ \E e \in Events, k \in 1..Len(bus.onceOf) : BusOffOnce(e, k)
  \/ \E e \in Events : BusClear(e)
  \/ \E e \in Events, data \in PayloadData : BusEmit(e, data)
  \/ EmitStep
  \/ HandlerReturns
  \/ HandlerThrows
  \/ EmitEnd

\* A bus on its own.
InitBus == Init /\ ~aiOrchestrator /\ storageType = "none"

SpecBus == InitBus /\ [][NextBus]_vars

(***************************************************************************)
(* The orchestrator: setProvider, generateTheme, adjustTheme and the       *)
(* async generator generateThemeStream, whose body starts at the first     *)
(* next().                                                                 *)
(***************************************************************************)
\* this.provider, as a call reads it.
currentProviderFirst(o) == 1

currentProvider(o) == o.provider

\* The chunk is yielded in place of the accumulated text.
accumulateReplaces(acc, chunk) == <<chunk>>

\* accumulated += chunk
accumulate(acc, chunk) == Append(acc, chunk)

\* const response = await this.provider.complete(messages), the call.
callComplete(o, r) ==
  [r EXCEPT !.pc = "awaitComplete", !.used = Append(@, currentProvider(o)),
            !.completeCalls = @ + 1, !.log = Append(@, "complete:call")]

\* A parse that asks the provider again when the reply is not usable.
parseReplyRetries(o, r, reply) ==
  IF reply = "valid"
  THEN [r EXCEPT !.pc = "resolved",
                 !.log = @ \o <<"complete:resolved", "parse:ok">>]
  ELSE callComplete(o, [r EXCEPT !.log = @ \o <<"complete:resolved", "parse:throw">>])

\* return this.promptEngine.parseFullResponse(response): JSON.parse and
\* normalizeTokens throw, nothing catches.
parseReply(o, r, reply) ==
  IF reply = "valid"
  THEN [r EXCEPT !.pc = "resolved",
                 !.log = @ \o <<"complete:resolved", "parse:ok">>]
  ELSE [r EXCEPT !.pc = "rejected",
                 !.error = IF reply = "unparsable" THEN ParseError ELSE SchemaError,
                 !.log = @ \o <<"complete:resolved", "parse:throw">>]

SetCall(c, r) == orch' = [orch EXCEPT !.calls[c] = r]

\* setProvider(provider): this.provider = provider.
SetProvider(stream) ==
  /\ orch.provider < MaxProviders
  /\ orch' = [orch EXCEPT !.provider = @ + 1, !.canStream = Append(@, stream)]
  /\ UNCHANGED <<themeManagerVars, retry, bus, libVars>>

\* generateTheme(prompt) / adjustTheme(theme, instruction) up to the await.
OrchGenerate(kind) ==
  /\ Len(orch.calls) < MaxOrchCalls
  /\ orch' = [orch EXCEPT !.calls = Append(@,
       callComplete(orch, [NoOrchCall EXCEPT !.kind = kind,
                                            !.madeUnder = orch.provider]))]
  /\ UNCHANGED <<themeManagerVars, retry, bus, libVars>>

\* generateThemeStream(prompt): the generator object, its body not started.
StreamCreate ==
  /\ Len(orch.calls) < MaxOrchCalls
  /\ orch' = [orch EXCEPT !.calls = Append(@,
       [NoOrchCall EXCEPT !.kind = "generateThemeStream", !.pc = "created",
                          !.madeUnder = orch.provider])]
  /\ UNCHANGED <<themeManagerVars, retry, bus, libVars>>

\* The first next(): without provider.stream fall back to generateTheme,
\* else call provider.stream(messages).
StreamBegin(c) ==
  /\ orch.calls[c].pc = "created"
  /\ SetCall(c, IF ~orch.canStream[currentProvider(orch)]
                THEN callComplete(orch, orch.calls[c])
                ELSE [orch.calls[c] EXCEPT !.pc = "streaming",
                        !.used = Append(@, currentProvider(orch)),
                        !.streamCalls = @ + 1,
                        !.log = Append(@, "stream:call")])
  /\ UNCHANGED <<themeManagerVars, retry, bus, libVars>>

\* provider.complete resolves with the reply: parse it; the fallback of the
\* stream yields the one complete item.
CompleteResolves(c, reply) ==
  /\ orch.calls[c].pc = "awaitComplete"
  /\ LET r == parseReply(orch, orch.calls[c], reply)
     IN  SetCall(c, IF r.kind = "generateThemeStream" /\ r.pc = "resolved"
                    THEN [r EXCEPT !.pc = "done",
                            !.items = Append(@, [partial |-> TokensJson,
                                                 complete |-> TRUE])]
                    ELSE r)
  /\ UNCHANGED <<themeManagerVars, retry, bus, libVars>>

\* provider.complete rejects.
CompleteRejects(c) ==
  /\ orch.calls[c].pc = "awaitComplete"
  /\ SetCall(c, [orch.calls[c] EXCEPT !.pc = "rejected", !.error = ProviderError,
                    !.log = Append(@, "complete:rejected")])
  /\ UNCHANGED <<themeManagerVars, retry, bus, libVars>>

\* The provider's stream yields a chunk: accumulate, yield the partial text.
StreamChunk(c, chunk) ==
  /\ orch.calls[c].pc = "streaming"
  /\ Len(orch.calls[c].accumulated) < MaxChunks
  /\ LET acc == accumulate(orch.calls[c].accumulated, chunk)
     IN  SetCall(c, [orch.calls[c] EXCEPT !.accumulated = acc,
                       !.log = Append(@, chunk),
                       !.items = Append(@, [partial |-> acc, complete |-> FALSE])])
  /\ UNCHANGED <<themeManagerVars, retry, bus, libVars>>

\* The provider's stream ends: yield the complete item.
StreamEnd(c) ==
  /\ orch.calls[c].pc = "streaming"
  /\ SetCall(c, [orch.calls[c] EXCEPT !.pc = "done",
                    !.items = Append(@, [partial |-> orch.calls[c].accumulated,
                                         complete |-> TRUE])])
  /\ UNCHANGED <<themeManagerVars, retry, bus, libVars>>

\* The provider's stream throws.
StreamFails(c) ==
  /\ orch.calls[c].pc = "streaming"
  /\ SetCall(c, [orch.calls[c] EXCEPT !.pc = "rejected", !.error = ProviderError])
  /\ UNCHANGED <<themeManagerVars, retry, bus, libVars>>

NextOrchestrator ==
  \/ \E stream \in BOOLEAN : SetProvider(stream)
  \/ \E kind \in {"generateTheme", "adjustTheme"} : OrchGenerate(kind)
  \/ StreamCreate
  \/ \E c \in 1..Len(orch.calls) : StreamBegin(c)
  \/ \E c \in 1..Len(orch.calls), reply \in Replies : CompleteResolves(c, reply)
  \/ \E c \in 1..Len(orch.calls) : CompleteRejects(c)
  \/ \E c \in 1..Len(orch.calls), chunk \in Chunks : StreamChunk(c, chunk)
  \/ \E c \in 1..Len(orch.calls) : StreamEnd(c)
  \/ \E c \in 1..Len(orch.calls) : StreamFails(c)

\* An orchestrator on its own, its first provider with or without stream.
InitOrchestrator ==
  /\ \E stream \in BOOLEAN : orch = NewOrchestrator(stream)
  /\ retry = IdleRetry
  /\ bus = NewEventBus
  /\ store = NewStorageManager("none", FALSE, FALSE)
  /\ engine = NewEngine(<<>>)
  /\ resolver = NewResolver(Undefined)
  /\ delivery = NewDelivery(<<>>)
  /\ boot = NewBoot(TRUE, NoId)
  /\ binding = NewBinding("react")
  /\ themes = MapSet(MapSet(EmptyMap, LightId, lightTheme), DarkId, darkTheme)
  /\ activeTheme = NoTheme /\ css = NoId
  /\ aiOrchestrator = TRUE /\ storageManager = FALSE
  /\ optionsAI = ConstructorAI /\ orchestratorAI = ConstructorAI
  /\ storageType = "none" /\ storageAutoSave = TRUE
  /\ persistedActiveId = NoId /\ persistedThemes = EmptyMap
  /\ now = 0 /\ calls = EmptyBag /\ settled = IdleCall
  /\ nops = 0 /\ lastOp = NoOp

SpecOrchestrator == InitOrchestrator /\ [][NextOrchestrator]_vars

SpecProvider == InitProvider /\ [][NextProvider]_vars

(***************************************************************************)
(* The storage manager: each persistence call from `await this.init()` to  *)
(* the value it resolves with or the error it rejects with.  What a call   *)
(* returns is [s |-> the manager after it, error, id, theme, themes].      *)
(***************************************************************************)
hasLocalStorage(s) == s.type \in {"localStorage", "indexedDB"}
hasIndexedDB(s) == s.type = "indexedDB"

\* LocalStorageAdapter.isAvailable: the test write succeeds.
isAvailable(s) == s.localStorageWorks

\* IndexedDBAdapter.init: throws where the global indexedDB is undefined.
indexedDBInit(s) ==
  IF s.db THEN [s |-> s, error |-> NoError]
  ELSE IF ~s.indexedDBExists THEN [s |-> s, error |-> IndexedDBUnavailable]
  ELSE [s |-> [s EXCEPT !.db = TRUE], error |-> NoError]

\* StorageManager.init.
storageInit(s) ==
  IF s.initialized THEN [s |-> s, error |-> NoError]
  ELSE IF hasIndexedDB(s)
       THEN LET r == indexedDBInit(s)
            IN IF r.error # NoError THEN r
               ELSE [s |-> [r.s EXCEPT !.initialized = TRUE], error |-> NoError]
       ELSE [s |-> [s EXCEPT !.initialized = TRUE], error |-> NoError]

Returned(s, id, theme, list) ==
  [s |-> s, error |-> NoError, id |-> id, theme |-> theme, themes |-> list]
Thrown(s, error) ==
  [s |-> s, error |-> error, id |-> NoId, theme |-> NoTheme, themes |-> EmptyMap]
Void(s) == Returned(s, NoId, NoTheme, EmptyMap)

\* LocalStorageAdapter.getThemes.
localGetThemes(s) == IF isAvailable(s) THEN s.themesKey ELSE EmptyMap

storageGetActiveThemeId(s) ==
  LET i == storageInit(s)
  IN IF i.error # NoError THEN Thrown(i.s, i.error)
     ELSE IF hasLocalStorage(i.s)
          THEN Returned(i.s, IF isAvailable(i.s) THEN i.s.activeThemeKey ELSE NoId,
                        NoTheme, EmptyMap)
          ELSE Returned(i.s, NoId, NoTheme, EmptyMap)

storageSetActiveThemeId(s, themeId) ==
  LET i == storageInit(s)
  IN IF i.error # NoError THEN Thrown(i.s, i.error)
     ELSE IF hasLocalStorage(i.s) /\ isAvailable(i.s)
          THEN Void([i.s EXCEPT !.activeThemeKey = themeId])
          ELSE Void(i.s)

storageGetThemes(s) ==
  LET i == storageInit(s)
  IN IF i.error # NoError THEN Thrown(i.s, i.error)
     ELSE IF hasIndexedDB(i.s) THEN Returned(i.s, NoId, NoTheme, i.s.themesStore)
     ELSE IF hasLocalStorage(i.s) THEN Returned(i.s, NoId, NoTheme, localGetThemes(i.s))
     ELSE Returned(i.s, NoId, NoTheme, EmptyMap)

storageSaveTheme(s, theme) ==
  LET i == storageInit(s)
  IN IF i.error # NoError THEN Thrown(i.s, i.error)
     ELSE IF hasIndexedDB(i.s)
          THEN Void([i.s EXCEPT !.themesStore = MapSet(@, theme.id, theme)])
     ELSE IF hasLocalStorage(i.s) /\ isAvailable(i.s)
          THEN Void([i.s EXCEPT !.themesKey = MapSet(@, theme.id, theme)])
     ELSE Void(i.s)

storageRemoveTheme(s, themeId) ==
  LET i == storageInit(s)
  IN IF i.error # NoError THEN Thrown(i.s, i.error)
     ELSE IF hasIndexedDB(i.s)
          THEN Void([i.s EXCEPT !.themesStore = MapDelete(@, themeId)])
     ELSE IF hasLocalStorage(i.s) /\ isAvailable(i.s)
          THEN Void([i.s EXCEPT !.themesKey = MapDelete(@, themeId)])
     ELSE Void(i.s)

Find(m, themeId) == IF MapHas(m, themeId) THEN m[themeId] ELSE NoTheme

storageGetTheme(s, themeId) ==
  LET i == storageInit(s)
  IN IF i.error # NoError THEN Thrown(i.s, i.error)
     ELSE IF hasIndexedDB(i.s)
          THEN Returned(i.s, NoId, Find(i.s.themesStore, themeId), EmptyMap)
     ELSE IF hasLocalStorage(i.s)
          THEN Returned(i.s, NoId, Find(localGetThemes(i.s), themeId), EmptyMap)
     ELSE Returned(i.s, NoId, NoTheme, EmptyMap)

storageClear(s) ==
  LET i == storageInit(s)
      a == IF hasIndexedDB(i.s) THEN [i.s EXCEPT !.themesStore = EmptyMap] ELSE i.s
  IN IF i.error # NoError THEN Thrown(i.s, i.error)
     ELSE IF hasLocalStorage(a) /\ isAvailable(a)
          THEN Void([a EXCEPT !.activeThemeKey = NoId, !.themesKey = EmptyMap])
          ELSE Void(a)

StoredThemes == {lightTheme, darkTheme}

\* The caller is handed what the call settled with.
StorageCall(op, r) ==
  /\ store.nops < MaxStorageOps
  /\ store' = [r.s EXCEPT
       !.nops = @ + 1,
       !.result = [op |-> op,
                   outcome |-> IF r.error = NoError THEN "resolved" ELSE "rejected",
                   error |-> r.error, id |-> r.id, theme |-> r.theme,
                   themes |-> r.themes]]
  /\ UNCHANGED <<themeManagerVars, retry, orch, bus, engine, resolver, delivery, boot, binding>>

StorageInit == StorageCall("init", LET i == storageInit(store) IN
                                   IF i.error # NoError THEN Thrown(i.s, i.error)
                                   ELSE Void(i.s))
StorageGetActiveThemeId == StorageCall("getActiveThemeId", storageGetActiveThemeId(store))
StorageSetActiveThemeId ==
  \E t \in StoredThemes : StorageCall("setActiveThemeId", storageSetActiveThemeId(store, t.id))
StorageGetThemes == StorageCall("getThemes", storageGetThemes(store))
StorageSaveTheme ==
  \E t \in StoredThemes : StorageCall("saveTheme", storageSaveTheme(store, t))
StorageRemoveTheme ==
  \E t \in StoredThemes : StorageCall("removeTheme", storageRemoveTheme(store, t.id))
StorageGetTheme ==
  \E t \in StoredThemes : StorageCall("getTheme", storageGetTheme(store, t.id))
StorageClear == StorageCall("clear", storageClear(store))

NextStorage ==
  \/ StorageInit
  \/ StorageGetActiveThemeId
  \/ StorageSetActiveThemeId
  \/ StorageGetThemes
  \/ StorageSaveTheme
  \/ StorageRemoveTheme
  \/ StorageGetTheme
  \/ StorageClear

\* new StorageManager(options) in each environment; nothing else is running.
InitStorage ==
  /\ \E type \in BackendTypes, l \in BOOLEAN, i \in BOOLEAN :
       store = NewStorageManager(type, l, i)
  /\ engine = NewEngine(<<>>)
  /\ resolver = NewResolver(Undefined)
  /\ delivery = NewDelivery(<<>>)
  /\ boot = NewBoot(TRUE, NoId)
  /\ binding = NewBinding("react")
  /\ retry = IdleRetry /\ orch = NewOrchestrator(TRUE) /\ bus = NewEventBus
  /\ themes = MapSet(MapSet(EmptyMap, LightId, lightTheme), DarkId, darkTheme)
  /\ activeTheme = NoTheme /\ css = NoId
  /\ aiOrchestrator = FALSE /\ storageManager = FALSE
  /\ optionsAI = NoAI /\ orchestratorAI = NoAI
  /\ storageType = "none" /\ storageAutoSave = TRUE
  /\ persistedActiveId = NoId /\ persistedThemes = EmptyMap
  /\ now = 0 /\ calls = EmptyBag /\ settled = IdleCall
  /\ nops = 0 /\ lastOp = NoOp

SpecStorage == InitStorage /\ [][NextStorage]_vars

(***************************************************************************)
(* The replies the engine is given: texts written the way JSON.stringify   *)
(* writes them, bare or wrapped in a code block or in prose.               *)
(***************************************************************************)
RECURSIVE Join(_)
Join(texts) ==
  IF texts = <<>> THEN <<>>
  ELSE IF Len(texts) = 1 THEN texts[1]
  ELSE texts[1] \o <<",">> \o Join(Tail(texts))

Str(chars) == <<Quote>> \o chars \o <<Quote>>
Member(key, text) == <<Quote, key, Quote, ":">> \o text
ObjectText(members) == <<"{">> \o Join(members) \o <<"}">>
ArrayText(elements) == <<"[">> \o Join(elements) \o <<"]">>

\* A value left out of its object.
Absent == <<>>
\* The members given, those with an absent value left out.
RECURSIVE Present(_)
Present(members) ==
  IF members = <<>> THEN <<>>
  ELSE IF members[1][2] = Absent THEN Present(Tail(members))
  ELSE <<Member(members[1][1], members[1][2])>> \o Present(Tail(members))
ObjectOf(members) == ObjectText(Present(members))

RoleOrder ==
  <<"primary", "secondary", "accent", "background", "surface", "error",
    "warning", "success", "info", "textPrimary", "textSecondary",
    "textDisabled", "textInverse", "border", "borderLight", "borderDark">>
HexOrder == <<"0", "1", "2", "3", "4", "5", "6", "7", "8", "9", "a", "b", "c", "d", "e", "f">>

\* A valid colour of its own for each role.
BaseColor(i) == Str(<<"#", HexOrder[i], "4", "c">>)

ValidColorTexts ==
  {Str(<<"#", "F", "f", "0">>),
   Str(<<"#", "a", "1", "b", "2", "c", "3", "d", "4">>),
   Str(<<"r", "g", "b", "(", "1", ",", " ", "2", ",", "3", ")">>),
   Str(<<"h", "s", "l", "a", "(", "1", ",", "2", "%", ",", "3", "%", ",", ".", "5", ")">>),
   Str(<<"r", "e", "d">>)}
InvalidColorTexts ==
  {Str(<<"#", "1", "2">>),
   Str(<<"#", "g", "g", "g">>),
   Str(<<" ", "#", "f", "f", "f">>),
   Str(<<"r", "g", "b", "(", ")">>),
   Str(<<"r", "g", "b", "(", "0", " ", "0", " ", "0", " ", "/", " ", ".", "5", ")">>),
   Str([i \in 1..(MaxColorNameLength + 1) |-> "a"]),
   Str(<<>>)}
OtherValueTexts ==
  {<<"4", "2">>, <<"null">>, <<"true">>, ArrayText(<<Str(<<"r", "e", "d">>)>>),
   ObjectOf(<<<<"hex", Str(<<"#", "f", "f", "f">>)>>>>)}
ColorSamples == ValidColorTexts \cup InvalidColorTexts \cup OtherValueTexts \cup {Absent}

\* The roles whose value varies together, the other roles being valid.
OddRoles == {"primary", "borderDark"}

ColorsWith(odd) ==
  ObjectOf([i \in 1..Len(RoleOrder) |->
     <<RoleOrder[i],
       IF RoleOrder[i] \in DOMAIN odd THEN odd[RoleOrder[i]] ELSE BaseColor(i)>>])

ColorObjects ==
  {ColorsWith(odd) : odd \in [OddRoles -> ColorSamples]}
    \cup {ColorsWith([r \in {role} |-> v]) :
            role \in ColorRoles,
            v \in {Absent, Str(<<"#", "1", "2">>), <<"null">>}}
    \cup {ObjectOf(<<>>)}

\* A colours object of two roles, enough for a reply to be accepted.
FewColors ==
  ObjectOf(<<<<"primary", Str(<<"#", "1", "2", "3">>)>>,
             <<"surface", Str(<<"t", "e", "a", "l">>)>>>>)

ColorReplies == {ObjectOf(<<<<"colors", c>>>>) : c \in ColorObjects}

\* The ways a reply wraps its JSON.
Bare(body) == body
Padded(body) == <<"\n", " ">> \o body \o <<" ", "\n">>
FencedJson(body) == <<Fence, "json", "\n">> \o body \o <<"\n", Fence>>
FencedPlain(body) == <<"Sure", ":", "\n", Fence>> \o body \o <<Fence, "\n", "Enjoy">>
OpenFence(body) == <<Fence, "json", "\n">> \o body
InProse(body) == <<"Here", " ", "is", " ", "the", " ", "theme", ":", "\n">> \o body \o <<"\n", "Enjoy", ".">>
AfterBraces(body) == <<"Use", " ", "{", "name", "}", ":", " ">> \o body
BeforeBrace(body) == body \o <<" ", "}">>
Wrapped(body) ==
  {Bare(body), Padded(body), FencedJson(body), FencedPlain(body),
   OpenFence(body), InProse(body), AfterBraces(body), BeforeBrace(body)}

Accepted == ObjectOf(<<<<"colors", FewColors>>>>)

\* What stands where the colours object should.
ColorsValues ==
  {Absent, <<"null">>, <<"0">>, <<"4", "2">>, <<"true">>, <<"false">>,
   Str(<<>>), Str(<<"r", "e", "d">>), ArrayText(<<>>),
   ArrayText(<<Str(<<"#", "f", "f", "f">>)>>), ObjectOf(<<>>), FewColors}

Bodies ==
  {ObjectOf(<<<<"typography", ObjectOf(<<>>)>>, <<"colors", c>>>>) : c \in ColorsValues}
    \cup {<<"not", " ", "json", " ", "at", " ", "all">>,
          <<"{", " ", "invalid", " ", "}">>,
          <<"null">>, <<"4", "2">>, <<"true">>, Str(<<"t", "e", "x", "t">>),
          Str(<<"{", "}">>),
          ArrayText(<<<<"1">>, <<"2">>>>),
          ArrayText(<<Accepted>>),
          ArrayText(<<Accepted, Accepted>>),
          Accepted \o <<",">>,
          <<"{">> \o Member("colors", FewColors) \o <<",", "}">>,
          <<"{">> \o Member("colors", <<"{">>),
          <<>>}

StructureReplies == UNION {Wrapped(body) : body \in Bodies}

\* Radius and shadow: the group itself, and in an object the keys that vary.
ValidRadiusTexts ==
  {Str(<<"0">>), Str(<<"n", "o", "n", "e">>), Str(<<"9", "9", "9", "9", "p", "x">>),
   Str(<<"1", ".", "5", "r", "e", "m">>), Str(<<"1", "2", "p", "x">>),
   Str(<<" ", "2", "p", "x", " ">>)}
InvalidRadiusTexts ==
  {Str(<<>>), Str(<<"1", "e", "m">>), Str(<<".", "5", "r", "e", "m">>),
   Str(<<"1", ".", "r", "e", "m">>), Str(<<"-", "1", "p", "x">>),
   Str(<<"1", ".", "2", ".", "3", "p", "x">>), Str(<<"p", "x">>),
   Str([i \in 1..(MaxRadiusLength + 1) |-> IF i <= MaxRadiusLength - 1 THEN "1"
                                           ELSE IF i = MaxRadiusLength THEN "p" ELSE "x"])}
RadiusSamples ==
  ValidRadiusTexts \cup InvalidRadiusTexts \cup {Absent, <<"4">>, <<"null">>}
OddRadiusKeys == {"sm", "full"}
RadiusObjects ==
  {ObjectOf(<<<<"none", Str(<<"2", "p", "x">>)>>, <<"sm", odd.sm>>,
              <<"lg", <<"7">>>>, <<"full", odd.full>>, <<"xl", Str(<<"9", "p", "x">>)>>>>) :
     odd \in [OddRadiusKeys -> RadiusSamples]}
GroupValues ==
  {Absent, <<"null">>, <<"0">>, <<"true">>, Str(<<"4", "p", "x">>),
   ArrayText(<<>>), ArrayText(<<Str(<<"4", "p", "x">>)>>), ObjectOf(<<>>)}

ShadowSamples ==
  {Str(<<"n", "o", "n", "e">>), Str(<<"0", " ", "1", "p", "x", " ", "r", "e", "d">>),
   Str([i \in 1..MaxShadowLength |-> "0"]),
   Str([i \in 1..(MaxShadowLength + 1) |-> "0"]),
   Str(<<>>), Absent, <<"4">>, <<"null">>}
OddShadowKeys == {"none", "lg"}
ShadowObjects ==
  {ObjectOf(<<<<"none", odd.none>>, <<"sm", Str(<<"1", "p", "x">>)>>,
              <<"lg", odd.lg>>, <<"xl", Str(<<"9", "p", "x">>)>>>>) :
     odd \in [OddShadowKeys -> ShadowSamples]}

RadiusReplies ==
  {ObjectOf(<<<<"colors", FewColors>>, <<"radius", r>>>>) :
     r \in RadiusObjects \cup GroupValues}
ShadowReplies ==
  {ObjectOf(<<<<"colors", FewColors>>, <<"shadow", s>>>>) :
     s \in ShadowObjects \cup GroupValues}

\* Typography, spacing and transition.
TypographyValues ==
  {Absent, <<"null">>, ObjectOf(<<>>), ArrayText(<<>>), Str(<<"A", "r", "i", "a", "l">>),
   ObjectOf(<<<<"fontFamily", ObjectOf(<<<<"sans", Str(<<"A", "r", "i", "a", "l">>)>>,
                                         <<"mono", <<"null">>>>>>)>>>>),
   ObjectOf(<<<<"fontFamily", Str(<<"A", "r", "i", "a", "l">>)>>,
              <<"fontWeight", Str(<<"6", "0", "0">>)>>>>),
   ObjectOf(<<<<"fontSize", ObjectOf(<<<<"xs", <<"1", "2">>>>, <<"sm", Str(<<>>)>>,
                                       <<"base", ObjectOf(<<>>)>>>>)>>,
              <<"lineHeight", ArrayText(<<<<"1">>>>)>>>>)}
SpacingValues ==
  {Absent, <<"null">>, Str(<<"8", "p", "x">>),
   ObjectOf(<<<<"xs", Str(<<"9", "r", "e", "m">>)>>, <<"huge", Str(<<"9", "r", "e", "m">>)>>>>)}
TransitionValues ==
  {Absent, ArrayText(<<>>),
   ObjectOf(<<<<"fast", Str(<<"1", "m", "s">>)>>, <<"slow", <<"null">>>>>>)}
SomeGroupValues ==
  {Absent, ObjectOf(<<<<"sm", Str(<<"3", "p", "x">>)>>>>)}

GroupReplies ==
  {ObjectOf(<<<<"colors", FewColors>>, <<"typography", t>>, <<"spacing", s>>,
              <<"radius", r>>, <<"shadow", h>>, <<"transition", x>>>>) :
     t \in TypographyValues, s \in SpacingValues, r \in SomeGroupValues,
     h \in SomeGroupValues, x \in TransitionValues}

\* The custom field.
CustomValues ==
  {Absent, <<"null">>, <<"5">>, <<"true">>, <<"false">>, Str(<<"s", "t", "r", "i", "n", "g">>),
   Str(<<>>), ArrayText(<<<<"1">>, <<"2">>, <<"3">>>>), ArrayText(<<>>),
   ObjectOf(<<>>),
   ObjectOf(<<<<"brandName", Str(<<"A", "c", "m", "e">>)>>, <<"extra", <<"true">>>>>>),
   ObjectOf(<<<<"colors", ObjectOf(<<<<"primary", Str(<<"r", "e", "d">>)>>>>)>>,
              <<"custom", ArrayText(<<<<"1">>>>)>>>>)}

CustomReplies ==
  UNION {{Bare(b), FencedJson(b), InProse(b)} :
    b \in {ObjectOf(<<<<"custom", c>>, <<"colors", k>>, <<"radius", r>>>>) :
             c \in CustomValues, k \in {Absent, FewColors, ArrayText(<<>>)},
             r \in SomeGroupValues}}

ReplyTexts ==
  ColorReplies \cup StructureReplies \cup RadiusReplies \cup ShadowReplies
    \cup GroupReplies \cup CustomReplies

(***************************************************************************)
(* The engine keeps nothing between calls: a call is made on the reply at  *)
(* hand and what it returns is kept for the caller.                        *)
(***************************************************************************)
EngineCall(name, result) ==
  /\ engine' = [engine EXCEPT !.call = name, !.result = result]
  /\ UNCHANGED <<themeManagerVars, retry, orch, bus, store, resolver, delivery, boot, binding>>

ParseFullResponse == EngineCall("parseFullResponse", parseFullResponse(engine.reply))
ParseResponse == EngineCall("parseResponse", parseResponse(engine.reply))

NextEngine ==
  \/ ParseFullResponse
  \/ ParseResponse

InitEngine ==
  /\ \E text \in ReplyTexts : engine = NewEngine(text)
  /\ resolver = NewResolver(Undefined)
  /\ delivery = NewDelivery(<<>>)
  /\ boot = NewBoot(TRUE, NoId)
  /\ binding = NewBinding("react")
  /\ store = NewStorageManager("none", FALSE, FALSE)
  /\ retry = IdleRetry /\ orch = NewOrchestrator(TRUE) /\ bus = NewEventBus
  /\ themes = MapSet(MapSet(EmptyMap, LightId, lightTheme), DarkId, darkTheme)
  /\ activeTheme = NoTheme /\ css = NoId
  /\ aiOrchestrator = FALSE /\ storageManager = FALSE
  /\ optionsAI = NoAI /\ orchestratorAI = NoAI
  /\ storageType = "none" /\ storageAutoSave = TRUE
  /\ persistedActiveId = NoId /\ persistedThemes = EmptyMap
  /\ now = 0 /\ calls = EmptyBag /\ settled = IdleCall
  /\ nops = 0 /\ lastOp = NoOp

SpecEngine == InitEngine /\ [][NextEngine]_vars


(***************************************************************************)
(* The TokenResolver state machine: a resolver with the default prefix,    *)
(* one token set, and the calls made on it.  The token sets are the seven  *)
(* built-in themes' and the light theme's with one optional group given:   *)
(* null, or an object holding none, one or all of the group's keys.        *)
(***************************************************************************)
CustomValue == JsonString(<<"2px">>)
GroupVariants(group) ==
  {JsonNull}
    \cup {ObjectFrom([key \in keys |-> CustomValue]) :
            keys \in {some \in SUBSET DOMAIN OptionalDefaults[group] :
                        \/ Cardinality(some) <= 1
                        \/ some = DOMAIN OptionalDefaults[group]}}
TokenSets ==
  BuiltinTokens
    \cup UNION {{WithGroup(TokensOf(lightColors, defaultTypographyTokens), group, value) :
                   value \in GroupVariants(group)} :
                group \in DOMAIN OptionalDefaults}

ResolverCall(name, path, value, varName, map) ==
  /\ resolver' = [resolver EXCEPT
       !.last = [call |-> name, path |-> path, value |-> value,
                 name |-> varName, map |-> map]]
  /\ UNCHANGED <<themeManagerVars, retry, orch, bus, store, engine, delivery, boot, binding>>

\* resolver.getToken(tokens, path)
GetToken(path) ==
  ResolverCall("getToken", path, getToken(resolver.tokens, path), <<>>, <<>>)

\* resolver.getVariableName(path)
GetVariableName(path) ==
  ResolverCall("getVariableName", path, Undefined, getVariableName(path), <<>>)

\* resolver.flatten(tokens)
Flatten ==
  ResolverCall("flatten", <<>>, Undefined, <<>>, flatten(resolver.tokens))

\* resolver.toCSSVariables(tokens)
ToCSSVariables ==
  ResolverCall("toCSSVariables", <<>>, Undefined, <<>>, toCSSVariables(resolver.tokens))

NextResolver ==
  \/ \E path \in TokenPaths : GetToken(path)
  \/ \E path \in TokenPaths : GetVariableName(path)
  \/ Flatten
  \/ ToCSSVariables

InitResolver ==
  /\ \E tokens \in TokenSets : resolver = NewResolver(tokens)
  /\ delivery = NewDelivery(<<>>)
  /\ boot = NewBoot(TRUE, NoId)
  /\ binding = NewBinding("react")
  /\ engine = NewEngine(<<>>)
  /\ store = NewStorageManager("none", FALSE, FALSE)
  /\ retry = IdleRetry /\ orch = NewOrchestrator(TRUE) /\ bus = NewEventBus
  /\ themes = MapSet(MapSet(EmptyMap, LightId, lightTheme), DarkId, darkTheme)
  /\ activeTheme = NoTheme /\ css = NoId
  /\ aiOrchestrator = FALSE /\ storageManager = FALSE
  /\ optionsAI = NoAI /\ orchestratorAI = NoAI
  /\ storageType = "none" /\ storageAutoSave = TRUE
  /\ persistedActiveId = NoId /\ persistedThemes = EmptyMap
  /\ now = 0 /\ calls = EmptyBag /\ settled = IdleCall
  /\ nops = 0 /\ lastOp = NoOp

SpecResolver == InitResolver /\ [][NextResolver]_vars

\* The generate calls of one behaviour.
MaxGenerateCalls == 1

(***************************************************************************)
(* generate with its provider: the manager's generate calls, one at a      *)
(* time, each running the provider's retry loop.  The call of the          *)
(* orchestrator runs into provider.complete and its first fetch before it  *)
(* first awaits; the orchestrator resolves when the loop returned a reply  *)
(* that parses, and rejects with the loop's last error or the parse error. *)
(***************************************************************************)
\* generate(prompt, options) up to its first await.
GenerateCallsProvider(prompt, opts, cfg) ==
  /\ nops < MaxGenerateCalls /\ Quiescent
  /\ nops' = nops + 1
  /\ LET r == generateEnter(NewCall("generate", NoId, prompt, opts), aiOrchestrator)
     IN  /\ calls' = IF Settles(r) THEN calls ELSE calls (+) SetToBag({r})
         /\ settled' = IF Settles(r) THEN r ELSE IdleCall
         /\ retry' = IF Settles(r) THEN retry
                     ELSE beginAttempt([IdleRetry EXCEPT !.retries = retriesOf(cfg)])
  /\ lastOp' = NoOp
  /\ UNCHANGED <<managerVars, configVars, storeVars, now, orch, bus, libVars>>

\* The provider returned a reply and parseFullResponse accepts it.
ReplyAccepted(c, t) == retry.pc = "resolved" /\ AIResolve(c, t)

\* The provider returned a reply and JSON.parse or normalizeTokens throws.
ReplyRefused(c, e) == retry.pc = "resolved" /\ AIReject(c, e)

\* The retry loop threw its last error.
ProviderGaveUp(c) == retry.pc = "rejected" /\ AIReject(c, retry.lastError)

\* The steps that settle a pending request, timer or storage call.
GenerateProgress ==
  \/ FetchTimeout
  \/ FetchNetworkError
  \/ \E ok \in BOOLEAN : ResponseArrives(ok)
  \/ \E hasContent \in BOOLEAN : BodyRead(hasContent)
  \/ SleepDone
  \/ \E c \in BagToSet(calls) :
       \/ \E t \in 0..MaxTime : ReplyAccepted(c, t)
       \/ \E e \in {ParseError, SchemaError} : ReplyRefused(c, e)
       \/ ProviderGaveUp(c)
       \/ ApplyStoreWrite(c)
       \/ ApplyStoreFail(c)
       \/ ApplyEmit(c)
       \/ GenerateAfterApply(c)
       \/ SaveStoreWrite(c)
       \/ SaveStoreFail(c)
       \/ GenerateFinish(c)

NextGenerate ==
  \/ \E p \in Prompts, o \in GenerateOptions, cfg \in MaxRetriesConfigs :
       GenerateCallsProvider(p, o, cfg)
  \/ GenerateProgress

\* Every pending request, timer and storage call settles.
SpecGenerate == Init /\ [][NextGenerate]_vars /\ WF_vars(GenerateProgress)

(***************************************************************************)
(* Delivery: one operation of the manager, statement by statement, each    *)
(* emit a loop over the listeners, each listener returning or throwing.    *)
(***************************************************************************)
DeliveryStep(d) ==
  /\ delivery' = d
  /\ UNCHANGED <<themeManagerVars, retry, orch, bus, store, engine, resolver, boot, binding>>

InOperation == delivery.op # "" /\ delivery.outcome = ""
AtStatement(kind) ==
  /\ InOperation
  /\ delivery.pc <= Len(delivery.steps)
  /\ delivery.steps[delivery.pc][1] = kind

\* The caller calls register, unregister, apply or generate.
DeliveryCall(operation) ==
  /\ delivery.op = ""
  /\ DeliveryStep([delivery EXCEPT !.op = operation[1], !.steps = operation[2]])

\* A statement that is not an emit.
RunStatement ==
  /\ AtStatement("do")
  /\ DeliveryStep([delivery EXCEPT !.pc = @ + 1,
                     !.done = Append(@, delivery.steps[delivery.pc])])

\* for (const handler of handlers) { try { handler(fullPayload) ...
EmitInvokes ==
  /\ AtStatement("emit")
  /\ ~delivery.running
  /\ delivery.pos < Len(delivery.listeners)
  /\ DeliveryStep([delivery EXCEPT !.pos = @ + 1, !.running = TRUE,
       !.done = Append(@, <<"call", delivery.steps[delivery.pc][2],
                            delivery.listeners[delivery.pos + 1]>>)])

ListenerReturns ==
  /\ InOperation /\ delivery.running
  /\ DeliveryStep([delivery EXCEPT !.running = FALSE])

ListenerThrows ==
  /\ InOperation /\ delivery.running
  /\ DeliveryStep(handlerThrows(delivery))

\* The loop is over: emit returns.
EmitReturns ==
  /\ AtStatement("emit")
  /\ ~delivery.running
  /\ delivery.pos = Len(delivery.listeners)
  /\ DeliveryStep([delivery EXCEPT !.pc = @ + 1, !.pos = 0])

\* The operation returns, or resolves.
OperationReturns ==
  /\ InOperation
  /\ delivery.pc > Len(delivery.steps)
  /\ DeliveryStep([delivery EXCEPT !.outcome = "returned"])

NextDelivery ==
  \/ \E operation \in Operations : DeliveryCall(operation)
  \/ RunStatement
  \/ EmitInvokes
  \/ ListenerReturns
  \/ ListenerThrows
  \/ EmitReturns
  \/ OperationReturns

InitDelivery ==
  /\ \E listeners \in ListenerLists : delivery = NewDelivery(listeners)
  /\ boot = NewBoot(TRUE, NoId)
  /\ binding = NewBinding("react")
  /\ engine = NewEngine(<<>>)
  /\ resolver = NewResolver(Undefined)
  /\ store = NewStorageManager("none", FALSE, FALSE)
  /\ retry = IdleRetry /\ orch = NewOrchestrator(TRUE) /\ bus = NewEventBus
  /\ themes = MapSet(MapSet(EmptyMap, LightId, lightTheme), DarkId, darkTheme)
  /\ activeTheme = NoTheme /\ css = NoId
  /\ aiOrchestrator = FALSE /\ storageManager = FALSE
  /\ optionsAI = NoAI /\ orchestratorAI = NoAI
  /\ storageType = "none" /\ storageAutoSave = TRUE
  /\ persistedActiveId = NoId /\ persistedThemes = EmptyMap
  /\ now = 0 /\ calls = EmptyBag /\ settled = IdleCall
  /\ nops = 0 /\ lastOp = NoOp

SpecDelivery == InitDelivery /\ [][NextDelivery]_vars

(***************************************************************************)
(* ThemeManager.init (lines 119-148), await by await, with unregister and  *)
(* the making of the next manager on the same storage.  An init call is a  *)
(* record in the bag calls, its id the saved id it read.                   *)
(***************************************************************************)
BootFrame == UNCHANGED <<retry, orch, bus, store, engine, resolver, delivery, binding>>

CanBoot == BagCardinality(calls) < MaxCalls /\ boot.ops < MaxBootOps

\* An init call ran up to its next await, or to its end, as r.
BootSettles(c, r) ==
  /\ calls' = IF Settles(r) THEN calls (-) SetToBag({c})
                            ELSE (calls (-) SetToBag({c})) (+) SetToBag({r})
  /\ settled' = IF Settles(r) THEN r ELSE IdleCall
  /\ lastOp' = NoOp
  /\ BootFrame

\* init from the test of the saved id on: apply the chosen theme up to
\* apply's await, or set initialized when there is none to apply.
initChoose(r, ts, active, style, sm, autoSave, loaded, savedThemeId, defaultTheme) ==
  LET target == initTarget(ts, loaded, savedThemeId, defaultTheme)
      a == applyEnter(r, ts, active, style, sm, autoSave, target)
  IN  IF target = NoId
      THEN [activeTheme |-> active, css |-> style, initialized |-> TRUE,
            applied |-> 0, call |-> [r EXCEPT !.pc = "resolved"]]
      ELSE [activeTheme |-> a.activeTheme, css |-> a.css, initialized |-> FALSE,
            applied |-> IF a.awaits THEN 0 ELSE 1,
            call |-> [a.call EXCEPT !.pc = IF a.awaits THEN "applyStore"
                                                        ELSE "afterApply"]]

\* init() is called: return at once when initialized, else start the load
\* when there is a storage manager and autoLoad is not false, else go on to
\* the default theme.
InitStart ==
  /\ CanBoot
  /\ LET r == NewCall("init", NoId, "", DefaultOpts)
         ch == initChoose(r, themes, activeTheme, css, storageManager,
                          storageAutoSave, FALSE, NoId, boot.defaultTheme)
         loads == storageManager /\ boot.autoLoad
         next == IF boot.initialized THEN [r EXCEPT !.pc = "resolved"]
                 ELSE IF loads THEN [r EXCEPT !.pc = "readActiveId"]
                 ELSE ch.call
         applies == ~boot.initialized /\ ~loads
     IN  /\ activeTheme' = IF applies THEN ch.activeTheme ELSE activeTheme
         /\ css' = IF applies THEN ch.css ELSE css
         /\ boot' = [boot EXCEPT !.ops = @ + 1,
                                 !.initialized = @ \/ (applies /\ ch.initialized),
                                 !.applied = IF applies THEN @ + ch.applied ELSE @]
         /\ calls' = IF Settles(next) THEN calls ELSE calls (+) SetToBag({next})
         /\ settled' = IF Settles(next) THEN next ELSE IdleCall
  /\ lastOp' = NoOp
  /\ BootFrame
  /\ UNCHANGED <<themes, aiOrchestrator, orchestratorAI, storageManager,
                 configVars, storeVars, now, nops>>

\* `await this.storageManager.getActiveThemeId()` resolves.
InitGetsActiveId(c) ==
  /\ c.kind = "init" /\ c.pc = "readActiveId"
  /\ BootSettles(c, [c EXCEPT !.pc = "readThemes", !.id = persistedActiveId,
                       !.log = Append(@, Eff("storage:getActiveThemeId", NoTheme))])
  /\ boot' = [boot EXCEPT !.loads = @ + 1]
  /\ UNCHANGED <<managerVars, configVars, storeVars, now, nops>>

\* `await this.storageManager.getThemes()` resolves: register the saved
\* themes that are not registered yet, then apply the saved or the default
\* theme up to apply's await.
InitGetsThemes(c) ==
  /\ c.kind = "init" /\ c.pc = "readThemes"
  /\ LET ts == mergeSaved(themes, persistedThemes)
         r == [c EXCEPT !.log = Append(@, Eff("storage:getThemes", NoTheme))]
         ch == initChoose(r, ts, activeTheme, css, storageManager,
                          storageAutoSave, TRUE, c.id, boot.defaultTheme)
     IN  /\ themes' = ts
         /\ activeTheme' = ch.activeTheme
         /\ css' = ch.css
         /\ boot' = [boot EXCEPT !.initialized = @ \/ ch.initialized,
                                 !.applied = @ + ch.applied]
         /\ BootSettles(c, ch.call)
  /\ UNCHANGED <<aiOrchestrator, orchestratorAI, storageManager, configVars,
                 storeVars, now, nops>>

\* apply's `await this.storageManager.setActiveThemeId(themeId)` resolves.
InitApplyWrites(c) ==
  /\ c.kind = "init" /\ c.pc = "applyStore"
  /\ persistedActiveId' = c.target.id
  /\ BootSettles(c, [c EXCEPT !.pc = "applyEmit",
                       !.log = Append(@, Eff("persist:activeId", c.target))])
  /\ UNCHANGED <<managerVars, configVars, persistedThemes, now, nops, boot>>

\* The write rejects: apply rejects and so does init, initialized not set.
InitApplyFails(c) ==
  /\ c.kind = "init" /\ c.pc = "applyStore"
  /\ BootSettles(c, [c EXCEPT !.pc = "rejected", !.error = StorageError])
  /\ boot' = [boot EXCEPT !.failed = TRUE]
  /\ UNCHANGED <<managerVars, configVars, storeVars, now, nops>>

\* apply after its await: emit theme:changed.
InitApplyEmits(c) ==
  /\ c.kind = "init" /\ c.pc = "applyEmit"
  /\ BootSettles(c, [c EXCEPT !.pc = "afterApply",
                       !.log = Append(@, EvChanged(c.target, c.previousTheme))])
  /\ boot' = [boot EXCEPT !.applied = @ + 1]
  /\ UNCHANGED <<managerVars, configVars, storeVars, now, nops>>

\* init after `await this.apply(...)`: this.initialized = true.
InitFinish(c) ==
  /\ c.kind = "init" /\ c.pc = "afterApply"
  /\ BootSettles(c, [c EXCEPT !.pc = "resolved"])
  /\ boot' = [boot EXCEPT !.initialized = TRUE]
  /\ UNCHANGED <<managerVars, configVars, storeVars, now, nops>>

\* unregister(id) of a manager that has init.
BootUnregister(id) ==
  /\ boot.ops < MaxBootOps
  /\ LET r == unregister(themes, activeTheme, css, id)
     IN  /\ themes' = r.themes
         /\ activeTheme' = r.activeTheme
         /\ css' = r.css
         /\ lastOp' = Op("unregister", id, NoCustom, r.ret, r.events)
         /\ boot' = [boot EXCEPT !.ops = @ + 1,
                                 !.dropped = IF MapHas(themes, id) THEN @ \cup {id}
                                                                   ELSE @]
  /\ settled' = IdleCall
  /\ BootFrame
  /\ UNCHANGED <<aiOrchestrator, orchestratorAI, storageManager, configVars,
                 storeVars, now, calls, nops>>

\* The page is loaded again: a new ThemeManager with the same options on
\* the same storage.
NewManager ==
  /\ Quiescent
  /\ boot.managers < MaxManagers
  /\ boot.ops > 0
  /\ themes' = MapSet(MapSet(EmptyMap, LightId, lightTheme), DarkId, darkTheme)
  /\ activeTheme' = NoTheme
  /\ css' = NoId
  /\ boot' = [NewBoot(boot.autoLoad, boot.defaultTheme) EXCEPT
                !.ops = boot.ops, !.managers = boot.managers + 1,
                !.dropped = boot.dropped]
  /\ settled' = IdleCall
  /\ lastOp' = NoOp
  /\ BootFrame
  /\ UNCHANGED <<aiOrchestrator, orchestratorAI, storageManager, configVars,
                 storeVars, now, calls, nops>>

InitContinue ==
  \E c \in BagToSet(calls) :
    \/ InitGetsActiveId(c)
    \/ InitGetsThemes(c)
    \/ InitApplyWrites(c)
    \/ InitApplyFails(c)
    \/ InitApplyEmits(c)
    \/ InitFinish(c)

BootOp ==
  \/ \E id \in {id \in DOMAIN themes : id = LightId \/ id[1] = "ai"} :
       BootUnregister(id)
  \/ NewManager

\* generate with the default options, from its call to its end.
BootGenerate ==
  \/ Quiescent /\ boot.initialized /\ GenerateStart("warm", DefaultOpts)
  \/ \E c \in BagToSet(calls) :
       /\ c.kind = "generate"
       /\ \/ AIResolve(c, now)
          \/ ApplyStoreWrite(c)
          \/ ApplyEmit(c)
          \/ GenerateAfterApply(c)
          \/ SaveStoreWrite(c)
          \/ GenerateFinish(c)

\* What the page finds: the options, and what a former manager left in
\* storage.
InitBoot ==
  /\ themes = MapSet(MapSet(EmptyMap, LightId, lightTheme), DarkId, darkTheme)
  /\ activeTheme = NoTheme
  /\ css = NoId
  /\ aiOrchestrator = TRUE
  /\ optionsAI = ConstructorAI
  /\ orchestratorAI = optionsAI
  /\ storageType \in StorageTypes
  /\ storageManager = (storageType # "none")
  /\ storageAutoSave \in (IF storageType = "none" THEN {TRUE} ELSE BOOLEAN)
  /\ persistedActiveId \in (IF storageType = "none" THEN {NoId}
                            ELSE {NoId, LightId, AiId(0), MissingId})
  /\ persistedThemes \in (IF storageType = "none" THEN {EmptyMap}
                          ELSE {EmptyMap,
                                MapSet(EmptyMap, AiId(0), savedAiTheme),
                                MapSet(MapSet(EmptyMap, AiId(0), savedAiTheme),
                                       LightId, savedLightTheme)})
  /\ now = 0
  /\ calls = EmptyBag
  /\ settled = IdleCall
  /\ nops = 0
  /\ lastOp = NoOp
  /\ retry = IdleRetry
  /\ orch = NewOrchestrator(TRUE)
  /\ bus = NewEventBus
  /\ store = NewStorageManager("none", FALSE, FALSE)
  /\ engine = NewEngine(<<>>)
  /\ resolver = NewResolver(Undefined)
  /\ delivery = NewDelivery(<<>>)
  /\ boot \in {NewBoot(al, dt) :
                 al \in (IF storageType = "none" THEN {TRUE} ELSE BOOLEAN),
                 dt \in {NoId, LightId, MissingId}}
  /\ binding = NewBinding("react")

\* init calls in any interleaving the event loop allows.
NextInit == InitStart \/ InitContinue \/ BootOp

SpecInit == InitBoot /\ [][NextInit]_vars

\* One call at a time, generate among them.
NextInitSeq ==
  \/ Quiescent /\ InitStart
  \/ InitContinue
  \/ Quiescent /\ BootOp
  \/ BootGenerate

SpecInitSeq == InitBoot /\ [][NextInitSeq]_vars

(***************************************************************************)
(* The bindings: generate and adjust of the React ThemeProvider, of the    *)
(* Vue composable useAITheme and of the Vue plugin's $themed, each call    *)
(* from its start to the finally block that ends it.                       *)
(***************************************************************************)
BindingStep(b) ==
  /\ binding' = b
  /\ UNCHANGED <<themeManagerVars, retry, orch, bus, store, engine, resolver,
                 delivery, boot>>

\* The entry points of a binding: the provider's callbacks in React, the
\* composable and the plugin's $themed in Vue.
EntryPoints(framework) ==
  IF framework = "react" THEN {"provider"} ELSE {"composable", "plugin"}

\* The isGenerating a component reads: the provider's state in React,
\* injection.isGenerating || localIsGenerating.value in Vue.
isGenerating(b) ==
  IF b.framework = "react" THEN b.provided ELSE b.provided \/ b.local

\* The error a component reads.
aiError(b) ==
  IF b.framework = "react" THEN b.providedError
  ELSE b.providedError \/ b.localError

\* setIsGenerating(value), localIsGenerating.value = value and
\* isGenerating.value = value, by the entry point.
setFlag(b, via, value) ==
  IF via = "composable" THEN [b EXCEPT !.local = value]
                        ELSE [b EXCEPT !.provided = value]

\* setAiError(value), localError.value = value and aiError.value = value.
setError(b, via, value) ==
  IF via = "composable" THEN [b EXCEPT !.localError = value]
                        ELSE [b EXCEPT !.providedError = value]

\* A call up to `await manager.generate(...)`: flag true, error null.
beginCall(b, via, kind) ==
  LET b1 == setError(setFlag(b, via, TRUE), via, FALSE)
  IN  [b1 EXCEPT !.inFlight = Append(@, [via |-> via, kind |-> kind]),
                 !.started = @ + 1,
                 !.overlapped = @ \/ \E i \in 1..Len(b.inFlight) :
                                       b.inFlight[i].via = via,
                 !.last = "started"]

Without(s, i) == SubSeq(s, 1, i - 1) \o SubSeq(s, i + 1, Len(s))

\* The call at i settles: the catch block when manager.generate rejected,
\* then the finally block.
endCall(b, i, ok) ==
  LET via == b.inFlight[i].via
      b1 == IF ok THEN b ELSE setError(b, via, TRUE)
      b2 == [b1 EXCEPT !.inFlight = Without(@, i),
                       !.last = IF ok THEN "resolved" ELSE "rejected"]
  IN  setFlag(b2, via, FALSE)

BindingGenerate(via) ==
  /\ binding.started < MaxBindingCalls
  /\ via \in EntryPoints(binding.framework)
  /\ BindingStep(beginCall(binding, via, "generate"))

\* adjust throws before it sets the flag when no theme is active; the
\* plugin's $themed has no adjust.
BindingAdjust(via, hasActive) ==
  /\ binding.started < MaxBindingCalls
  /\ via \in EntryPoints(binding.framework) \ {"plugin"}
  /\ BindingStep(IF hasActive THEN beginCall(binding, via, "adjust")
                 ELSE [binding EXCEPT !.started = @ + 1, !.last = "threw"])

BindingSettles(i, ok) ==
  /\ i \in 1..Len(binding.inFlight)
  /\ BindingStep(endCall(binding, i, ok))

NextBinding ==
  \/ \E via \in {"provider", "composable", "plugin"} : BindingGenerate(via)
  \/ \E via \in {"provider", "composable"}, hasActive \in BOOLEAN :
       BindingAdjust(via, hasActive)
  \/ \E i \in 1..MaxBindingCalls, ok \in BOOLEAN : BindingSettles(i, ok)

InitBinding ==
  /\ themes = MapSet(MapSet(EmptyMap, LightId, lightTheme), DarkId, darkTheme)
  /\ activeTheme = NoTheme
  /\ css = NoId
  /\ aiOrchestrator = TRUE
  /\ optionsAI = ConstructorAI
  /\ orchestratorAI = optionsAI
  /\ storageType = "none"
  /\ storageManager = FALSE
  /\ storageAutoSave = TRUE
  /\ persistedActiveId = NoId
  /\ persistedThemes = EmptyMap
  /\ now = 0
  /\ calls = EmptyBag
  /\ settled = IdleCall
  /\ nops = 0
  /\ lastOp = NoOp
  /\ retry = IdleRetry
  /\ orch = NewOrchestrator(TRUE)
  /\ bus = NewEventBus
  /\ store = NewStorageManager("none", FALSE, FALSE)
  /\ engine = NewEngine(<<>>)
  /\ resolver = NewResolver(Undefined)
  /\ delivery = NewDelivery(<<>>)
  /\ boot = NewBoot(TRUE, NoId)
  /\ binding \in {NewBinding("react"), NewBinding("vue")}

SpecBinding == InitBinding /\ [][NextBinding]_vars

(***************************************************************************)
(* Properties.  A call is observed in the state that follows the step      *)
(* settling it (settled), a synchronous operation in the state that        *)
(* follows it (lastOp).                                                    *)
(***************************************************************************)
EventsOfType(log, type) == {i \in 1..Len(log) : log[i].type = type}
TypesOf(log) == [i \in 1..Len(log) |-> log[i].type]
IsPrefix(s, t) == Len(s) <= Len(t) /\ \A i \in 1..Len(s) : s[i] = t[i]
Size(m) == Cardinality(DOMAIN m)

GenerateRejected == settled.kind = "generate" /\ settled.pc = "rejected"
GenerateResolved == settled.kind = "generate" /\ settled.pc = "resolved"

\* C1: when the orchestrator's generateTheme or adjustTheme rejects, then,
\* as generate rejects, the registry has the size and the active theme the
\* id they had immediately before the call, and exactly one theme:error
\* event was emitted for the call.
C1_OrchestratorRejection ==
  (GenerateRejected /\ settled.error \in AIErrors) =>
    /\ Size(themes) = Size(settled.pre.themes)
    /\ DOMAIN themes = DOMAIN settled.pre.themes
    /\ activeTheme.id = settled.pre.activeTheme.id
    /\ Cardinality(EventsOfType(settled.log, "theme:error")) = 1

\* A generate call has just rejected on the orchestrator's rejection, with
\* a theme active before it.
C1_Witness ==
  /\ GenerateRejected
  /\ settled.error \in AIErrors
  /\ settled.pre.activeTheme # NoTheme
  /\ activeTheme # NoTheme

\* C2: when generate fails at any step, the registry and the active pointer
\* are exactly as they were before the call began; no theme the failed call
\* produced is registered or active.
C2_FailedGenerateLeavesNoTrace ==
  GenerateRejected =>
    /\ themes = settled.pre.themes
    /\ activeTheme = settled.pre.activeTheme
    /\ settled.theme # NoTheme =>
          (~MapHas(themes, settled.theme.id) /\ activeTheme # settled.theme)

\* C3 as stated: every generate call that rejects, the call made with no
\* AI provider configured included, has emitted a theme:error event with
\* context 'generate' carrying the error the caller receives.
C3_EveryRejectionEmitsItsError ==
  GenerateRejected =>
    \E i \in 1..Len(settled.log) :
      settled.log[i] = EvError(settled.error, "generate")

\* C3 amended: a generate call made with no orchestrator rejects with
\* 'AI is not configured' and emits nothing; every other generate call that
\* rejects began with theme:generating and ends with exactly one
\* theme:error event of context 'generate', its last effect, which carries
\* the value the caller receives when that value is an Error and
\* new Error(String(value)) when it is not.
C3_RejectionInsideTryEmitsError ==
  GenerateRejected =>
    IF ~settled.pre.aiOrchestrator
    THEN settled.error = NotConfiguredError /\ settled.log = <<>>
    ELSE LET log == settled.log
             last == log[Len(log)]
         IN  /\ settled.error # NotConfiguredError
             /\ Len(log) >= 2
             /\ log[1] = EvGenerating(settled.prompt)
             /\ EventsOfType(log, "theme:error") = {Len(log)}
             /\ last.context = "generate"
             /\ settled.error \notin NonErrorValues => last.error = settled.error
             /\ settled.error \in NonErrorValues =>
                   last.error = "Error(rawValue)"

\* A generate call has just rejected with a thrown value that is not an
\* Error.
C3_Witness == GenerateRejected /\ settled.error \in NonErrorValues

\* The effects of a generate call that applies and saves, in order.
GenerateOrder ==
  <<"theme:generating", "orchestrator:call", "registry:set", "theme:registered",
    "active:set", "css:inject", "persist:activeId", "theme:changed",
    "persist:theme", "theme:generated">>

\* C4: a generate call with auto-apply and auto-save, on a manager that
\* persists, does its effects in this order and no other: theme:generating,
\* the orchestrator's call, the registration and theme:registered, the swap
\* of the active pointer and the CSS, the write of the active id,
\* theme:changed, the write of the theme record, theme:generated; each
\* effect is about the call's own theme, and a call that resolves has done
\* them all.
C4_GenerateOrder ==
  \A r \in BagToSet(calls) \cup {settled} :
    (/\ r.kind = "generate"
     /\ r.opts.autoApply /\ r.opts.autoSave
     /\ storageManager /\ storageAutoSave
     /\ r.pc # "rejected") =>
      /\ IsPrefix(TypesOf(r.log), GenerateOrder)
      /\ \A i \in 3..Len(r.log) : r.log[i].theme = r.theme
      /\ r.pc = "resolved" => TypesOf(r.log) = GenerateOrder

\* A generate call with auto-apply and auto-save has just resolved on a
\* manager that persists.
C4_Witness ==
  /\ GenerateResolved
  /\ settled.opts.autoApply /\ settled.opts.autoSave
  /\ storageManager /\ storageAutoSave
  /\ persistedActiveId = settled.theme.id
  /\ MapHas(persistedThemes, settled.theme.id)

\* C5: a successful generate call registers its theme under an id no
\* registered theme has: the registry is one theme larger than before the
\* call and every theme registered before is still the registered one.
C5_GenerateAddsOneTheme ==
  GenerateResolved =>
    /\ ~MapHas(settled.pre.themes, settled.theme.id)
    /\ Size(themes) = Size(settled.pre.themes) + 1

\* C6: apply(id) with an id that is not registered rejects with 'Theme not
\* found' and changes nothing: the registry, the active pointer, the
\* injected CSS and the persisted active id are as before, and the call
\* emitted no event and did nothing else.
C6_ApplyUnknown ==
  (settled.kind = "apply" /\ ~MapHas(settled.pre.themes, settled.id)) =>
    /\ settled.pc = "rejected"
    /\ settled.error = NotFoundError
    /\ themes = settled.pre.themes
    /\ activeTheme = settled.pre.activeTheme
    /\ css = settled.pre.css
    /\ persistedActiveId = settled.pre.persistedActiveId
    /\ EventsOfType(settled.log, "theme:changed") = {}
    /\ settled.log = <<>>

\* An apply of an unknown id has just rejected while a theme was active.
C6_Witness ==
  /\ settled.kind = "apply"
  /\ settled.id = MissingId
  /\ settled.pc = "rejected"
  /\ settled.pre.activeTheme # NoTheme

\* C7: when apply(id) of a registered id resolves, the active theme has this
\* id; the call emitted exactly one theme:changed, whose theme is the
\* applied theme and whose previousTheme is the theme active immediately
\* before the call (or null); and, when the manager persists, the stored
\* active id is id and was written before theme:changed was emitted.
C7_ApplyRegistered ==
  (settled.kind = "apply" /\ settled.pc = "resolved") =>
    LET log == settled.log
        changed == EventsOfType(log, "theme:changed")
        written == EventsOfType(log, "persist:activeId")
    IN  /\ MapHas(settled.pre.themes, settled.id)
        /\ activeTheme = settled.pre.themes[settled.id]
        /\ activeTheme.id = settled.id
        /\ Cardinality(changed) = 1
        /\ \A i \in changed :
              /\ log[i].theme = settled.pre.themes[settled.id]
              /\ log[i].previousTheme = settled.pre.activeTheme
        /\ (storageManager /\ storageAutoSave) =>
              /\ persistedActiveId = settled.id
              /\ Cardinality(written) = 1
              /\ \A j \in written : \A i \in changed : j < i

\* An apply has just resolved on a manager that persists, replacing
\* another active theme.
C7_Witness ==
  /\ settled.kind = "apply"
  /\ settled.pc = "resolved"
  /\ storageManager /\ storageAutoSave
  /\ settled.pre.activeTheme # NoTheme
  /\ settled.pre.activeTheme.id # settled.id

\* C8: unregister(id) of a registered id removes exactly that entry, returns
\* true and emits theme:unregistered; when the active theme had this id the
\* active pointer becomes null and the CSS is cleared, no other theme being
\* selected, and otherwise both stay; unregister of an unknown id returns
\* false, changes nothing and emits nothing.
C8_Unregister ==
  lastOp.name = "unregister" =>
    LET pre == lastOp.pre
        id == lastOp.id
    IN  IF id \in DOMAIN pre.themes
        THEN /\ DOMAIN themes = DOMAIN pre.themes \ {id}
             /\ \A k \in DOMAIN themes : themes[k] = pre.themes[k]
             /\ lastOp.ret = "true"
             /\ lastOp.events = <<EvUnregistered(id)>>
             /\ IF pre.activeTheme.id = id
                THEN activeTheme = NoTheme /\ css = NoId
                ELSE activeTheme = pre.activeTheme /\ css = pre.css
        ELSE /\ themes = pre.themes
             /\ activeTheme = pre.activeTheme
             /\ css = pre.css
             /\ lastOp.ret = "false"
             /\ lastOp.events = <<>>

\* The active theme has just been unregistered while another theme stays
\* registered.
C8_Witness ==
  /\ lastOp.name = "unregister"
  /\ lastOp.ret = "true"
  /\ lastOp.pre.activeTheme.id = lastOp.id
  /\ themes # EmptyMap

\* C9: updateThemeCustom(id, data) throws for an id that is not registered
\* and then changes nothing; otherwise the registered theme's custom is
\* data, no other theme and no id changes, the active theme's custom is
\* data when the active theme has this id, and the active theme is
\* untouched when it has another id or is null.
C9_UpdateThemeCustom ==
  lastOp.name = "updateThemeCustom" =>
    LET pre == lastOp.pre
        id == lastOp.id
    IN  IF id \notin DOMAIN pre.themes
        THEN /\ lastOp.ret = "threw"
             /\ themes = pre.themes
             /\ activeTheme = pre.activeTheme
        ELSE /\ lastOp.ret # "threw"
             /\ DOMAIN themes = DOMAIN pre.themes
             /\ themes[id].custom = lastOp.data
             /\ themes[id].id = id
             /\ \A k \in DOMAIN themes \ {id} : themes[k] = pre.themes[k]
             /\ activeTheme.id = pre.activeTheme.id
             /\ IF pre.activeTheme.id = id
                THEN activeTheme.custom = lastOp.data /\ activeTheme = themes[id]
                ELSE activeTheme = pre.activeTheme

\* The custom data of the active theme has just been replaced.
C9_Witness ==
  /\ lastOp.name = "updateThemeCustom"
  /\ lastOp.ret # "threw"
  /\ lastOp.pre.activeTheme.id = lastOp.id
  /\ activeTheme.custom = lastOp.data

\* C10: after destroy() nothing is active, no theme is registered, the
\* style element is removed, and the manager has neither an orchestrator
\* nor a storage manager.
C10_DestroyClearsEverything ==
  lastOp.name = "destroy" =>
    /\ activeTheme = NoTheme
    /\ themes = EmptyMap
    /\ css = NoId
    /\ ~aiOrchestrator
    /\ ~storageManager

\* C11: a complete() call whose first k attempts fail and whose attempt k+1
\* succeeds, k not above maxRetries (3 when not configured), returns the
\* result of attempt k+1 after exactly k+1 attempts; the wait after the
\* i-th failed attempt lasted 1000 * 2^(i-1) ms; the success is the last
\* attempt made.
C11_SuccessAfterFailures ==
  retry.pc = "resolved" =>
    LET k == Len(retry.failures)
    IN  /\ k <= retry.retries
        /\ retry.attempts = k + 1
        /\ retry.result = k + 1
        /\ Len(retry.sleeps) = k
        /\ \A i \in 1..k : retry.sleeps[i] = 1000 * 2 ^ (i - 1)

\* A call with the default maxRetries has succeeded at its fourth attempt.
C11_Witness ==
  /\ retry.pc = "resolved"
  /\ retry.retries = 3
  /\ Len(retry.failures) = 3
  /\ retry.sleeps = <<1000, 2000, 4000>>

\* C12: when every attempt fails, a complete() call makes exactly
\* maxRetries + 1 attempts, rejects with the error of the last attempt and
\* has waited maxRetries times, not after the last failure.
C12_AllAttemptsFail ==
  retry.pc = "rejected" =>
    /\ retry.attempts = retry.retries + 1
    /\ Len(retry.failures) = retry.attempts
    /\ retry.lastErrorOf = retry.attempts
    /\ retry.lastError = retry.failures[retry.attempts]
    /\ Len(retry.sleeps) = retry.retries

\* A call has rejected after three attempts whose first and last errors
\* differ.
C12_Witness ==
  /\ retry.pc = "rejected"
  /\ retry.attempts = 3
  /\ retry.failures[1] # retry.failures[3]

\* C13: a request that has not completed within the timeout is aborted and
\* fails with the timeout error, an error unlike those of a bad status, an
\* empty reply and a network failure; and each failure, of whatever kind,
\* is one failed attempt of the retry loop.
C13_RequestBoundedByTimeout ==
  /\ retry.overdue => retry.pc # "attempt"
  /\ (retry.overdue /\ retry.pc \in {"sleep", "rejected"}) =>
        retry.failures[Len(retry.failures)] = TimeoutError
  /\ TimeoutError \notin {HttpError, EmptyReplyError, NetworkError}
  /\ Len(retry.failures) =
        retry.attempts - (IF retry.pc \in {"attempt", "resolved"} THEN 1 ELSE 0)


(***************************************************************************)
(* C14: a reply that fails parsing or schema validation is terminal: every *)
(* generateTheme/adjustTheme call invokes provider.complete exactly once,  *)
(* and a call that failed with a parse or schema error is rejected with    *)
(* the parse failure as its last step, no provider call after it.          *)
(***************************************************************************)
C14_ParseFailureIsTerminal ==
  \A c \in 1..Len(orch.calls) :
    LET r == orch.calls[c] IN
    /\ r.kind \in {"generateTheme", "adjustTheme"} => r.completeCalls = 1
    /\ r.completeCalls <= 1
    /\ r.error \in {ParseError, SchemaError} =>
         /\ r.pc = "rejected"
         /\ r.log = <<"complete:call", "complete:resolved", "parse:throw">>

C14_Witness ==
  \E c \in 1..Len(orch.calls) :
    /\ orch.calls[c].kind = "adjustTheme" /\ orch.calls[c].error = SchemaError
    /\ orch.calls[c].completeCalls = 1


\* The chunks the provider's stream has yielded to call r, in order.
ChunksOf(r) == SubSeq(r.log, 2, Len(r.log))

(***************************************************************************)
(* C18: in the items generateThemeStream yields, only the last can be      *)
(* complete and a stream that has ended has exactly one complete item, its *)
(* last.  On a provider without stream the items are one complete item     *)
(* from one complete() call; otherwise item i is incomplete and carries    *)
(* the first i chunks, and the complete item carries all of them.          *)
(***************************************************************************)
C18_StreamItems ==
  \A c \in 1..Len(orch.calls) :
    LET r == orch.calls[c]
        n == Len(r.items)
    IN  r.kind = "generateThemeStream" =>
          /\ \A i \in 1..n : r.items[i].complete <=> (i = n /\ r.pc = "done")
          /\ r.pc = "done" => n >= 1
          /\ r.used # <<>> =>
               IF ~orch.canStream[r.used[1]]
               THEN /\ r.streamCalls = 0 /\ r.completeCalls = 1
                    /\ r.items = IF r.pc = "done"
                                 THEN <<[partial |-> TokensJson, complete |-> TRUE]>>
                                 ELSE <<>>
               ELSE /\ r.streamCalls = 1 /\ r.completeCalls = 0
                    /\ \A i \in 1..n :
                         r.items[i].partial =
                           IF r.items[i].complete THEN ChunksOf(r)
                           ELSE SubSeq(ChunksOf(r), 1, i)
                    /\ n = Len(ChunksOf(r)) + (IF r.pc = "done" THEN 1 ELSE 0)

C18_Witness ==
  \E c \in 1..Len(orch.calls) :
    /\ orch.calls[c].pc = "done" /\ orch.calls[c].streamCalls = 1
    /\ Len(orch.calls[c].items) = 3
    /\ orch.calls[c].items[2].partial = <<"a", "b">>

(***************************************************************************)
(* C19 as stated: a call made after setProvider(p2), p2 being the provider *)
(* when the call is made, calls p2 only.                                   *)
(***************************************************************************)
C19_CallsProviderOfItsStart ==
  \A c \in 1..Len(orch.calls) :
    LET r == orch.calls[c] IN
    r.madeUnder >= 2 => \A i \in 1..Len(r.used) : r.used[i] = r.madeUnder

(***************************************************************************)
(* C19: the orchestrator holds the provider bound last; a call never calls *)
(* a provider replaced before the call was made and calls one provider     *)
(* only: generateTheme and adjustTheme the one bound when they are called, *)
(* generateThemeStream the one bound at its first next().                  *)
(***************************************************************************)
C19_NeverAReplacedProvider ==
  /\ currentProvider(orch) = Len(orch.canStream)
  /\ \A c \in 1..Len(orch.calls) :
       LET r == orch.calls[c] IN
       /\ Len(r.used) <= 1
       /\ \A i \in 1..Len(r.used) :
            r.used[i] >= r.madeUnder /\ r.used[i] <= currentProvider(orch)
       /\ r.kind \in {"generateTheme", "adjustTheme"} => r.used = <<r.madeUnder>>
       /\ r.kind = "generateThemeStream" => (r.used = <<>> <=> r.pc = "created")

C19_Witness ==
  \E c \in 1..Len(orch.calls) :
    /\ orch.calls[c].kind = "generateThemeStream"
    /\ orch.calls[c].madeUnder = 2 /\ orch.calls[c].used = <<3>>


\* The functions an emit has called, in the order of the calls.
Called(f) == MapSeq(f.invoked, LAMBDA c : c.fn)

\* The other event.
Other(e) == CHOOSE o \in Events : o # e

C16_Unsubscribed ==
  /\ [](\A u \in bus.unsubscribed : ~Has(bus.listeners[u[1]], u[2]))
  /\ [](\A i \in DOMAIN bus.stack : \A j \in DOMAIN bus.stack[i].invoked :
          ~bus.stack[i].invoked[j].late)
  /\ [][\A u \in bus.unsubscribed' \ bus.unsubscribed :
          /\ Live(bus.listeners[u[1]]') =
               SelectSeq(Live(bus.listeners[u[1]]), LAMBDA fn : fn # u[2])
          /\ listenerCount(bus', u[1]) =
               listenerCount(bus, u[1]) - (IF Has(bus.listeners[u[1]], u[2]) THEN 1 ELSE 0)
          /\ Live(bus.listeners[Other(u[1])]') = Live(bus.listeners[Other(u[1])])]_vars

C16_Witness ==
  \E i \in DOMAIN bus.stack :
    LET f == bus.stack[i] IN
    /\ AtEnd(bus, f)
    /\ <<f.event, Fn("h1")>> \in bus.unsubscribed /\ Fn("h1") \notin f.offDuring
    /\ Called(f) = <<Fn("h2")>>

(***************************************************************************)
(* C17 as stated: the wrapper once() makes is called at most once, emits   *)
(* from inside handlers included, and is in no Set of listeners once it    *)
(* has been called.                                                        *)
(***************************************************************************)
C17_OnceAtMostOnce ==
  \A k \in DOMAIN bus.fired :
    /\ bus.fired[k] <= 1
    /\ bus.fired[k] >= 1 => \A e \in Events : ~Has(bus.listeners[e], OnceFn(k))


\* Provider and model of the orchestrator generate uses, null without one.
ConfigInEffect ==
  IF aiOrchestrator
  THEN [provider |-> orchestratorAI.provider[2], model |-> orchestratorAI.model]
  ELSE NoAIConfig

(***************************************************************************)
(* C20 as stated: what getAIConfig reports is the configuration in effect, *)
(* provider and model of the last configureAI, or of the constructor's     *)
(* options while configureAI has not been called.                          *)
(***************************************************************************)
C20_ReportedConfigInEffect == getAIConfig(optionsAI) = ConfigInEffect


(***************************************************************************)
(* C29: a generate call with autoApply false that resolves has registered  *)
(* its theme and left the active theme, the injected CSS and the persisted *)
(* active id as they were, and has emitted no theme:changed; a generate    *)
(* call with autoSave false never writes the theme record, whether it      *)
(* resolves or not.                                                        *)
(***************************************************************************)
C29_GenerateOptOut ==
  /\ (GenerateResolved /\ ~settled.opts.autoApply) =>
       /\ MapHas(themes, settled.theme.id)
       /\ themes[settled.theme.id] = settled.theme
       /\ activeTheme = settled.pre.activeTheme
       /\ css = settled.pre.css
       /\ persistedActiveId = settled.pre.persistedActiveId
       /\ TypesOf(settled.log) \in
            {<<"theme:generating", "orchestrator:call", "registry:set",
               "theme:registered">> \o tail :
               tail \in {<<"theme:generated">>,
                          <<"persist:theme", "theme:generated">>}}
  /\ \A r \in BagToSet(calls) \cup {settled} :
       (r.kind = "generate" /\ ~r.opts.autoSave) =>
         /\ r.pc # "saveStore"
         /\ EventsOfType(r.log, "persist:theme") = {}

C29_Witness ==
  /\ GenerateResolved
  /\ ~settled.opts.autoApply /\ ~settled.opts.autoSave
  /\ storageManager /\ storageAutoSave
  /\ settled.pre.activeTheme = lightTheme /\ activeTheme = lightTheme
  /\ persistedActiveId = LightId


(***************************************************************************)
(* C30 as stated: when the last of the overlapping apply calls has         *)
(* resolved and no call is left in flight, the theme of the theme:changed  *)
(* it has just emitted is the active theme, and where the manager persists *)
(* the persisted active id is the id of the active theme.  (The active     *)
(* theme being a registered one: no unregister or destroy came between.)   *)
(***************************************************************************)
C30_OverlappingAppliesConsistent ==
  (/\ Quiescent
   /\ settled.kind = "apply" /\ settled.pc = "resolved"
   /\ activeTheme # NoTheme /\ MapHas(themes, activeTheme.id)) =>
     /\ activeTheme.id = settled.target.id
     /\ (storageManager /\ storageAutoSave) => persistedActiveId = activeTheme.id


\* No backend the manager can use: type 'none', localStorage refusing the
\* write, or type 'indexedDB' with no global indexedDB.
NoUsableBackend(s) ==
  \/ s.type = "none"
  \/ s.type = "localStorage" /\ ~s.localStorageWorks
  \/ s.type = "indexedDB" /\ ~s.indexedDBExists

(***************************************************************************)
(* C21 as stated: when no usable storage backend is available, every       *)
(* persistence call resolves, and resolves with the empty value (null, no  *)
(* themes), so that a caller awaiting it never fails.                      *)
(***************************************************************************)
C21_NoBackendDegradesToNoOp ==
  (NoUsableBackend(store) /\ store.result.op # "") =>
     /\ store.result.outcome = "resolved"
     /\ store.result.id = NoId
     /\ store.result.theme = NoTheme
     /\ store.result.themes = EmptyMap


\* What JSON.parse made of the reply at hand, and its members.
ReplyParsed == JSONParse(jsonStrOf(engine.reply))
ReplyIsObject == ReplyParsed.ok /\ ReplyParsed.v.t = "object"
ReplyMember(name) == Get(ReplyParsed.v, <<name>>)
EngineCalled(name) == engine.call = name
EngineReturned == engine.call # "" /\ engine.result.error = NoError
ValidColorOf(colors, role) ==
  Get(colors, <<role>>).t = "string" /\ isValidColor(Get(colors, <<role>>).s)

(***************************************************************************)
(* C22: when the colors value of the reply is an object the call returns,  *)
(* and each of the 16 roles of the result is the reply's value verbatim    *)
(* where that value is a string of the colour grammar and the fallback of  *)
(* the role where it is absent, not a string or not of the grammar,        *)
(* whatever the other 15 are.                                              *)
(***************************************************************************)
C22_ColorsPerField ==
  LET colors == ReplyMember("colors")
  IN (engine.call # "" /\ ReplyIsObject /\ colors.t = "object") =>
       /\ engine.result.error = NoError
       /\ DOMAIN engine.result.tokens.colors = ColorRoles
       /\ \A role \in ColorRoles :
            engine.result.tokens.colors[role] =
              IF ValidColorOf(colors, role)
              THEN Get(colors, <<role>>).s
              ELSE fallbacks[role]

\* 15 valid colours and an invalid primary: the 15 verbatim, primary the
\* fallback.
C22_Witness ==
  /\ EngineCalled("parseFullResponse") /\ ReplyIsObject
  /\ ReplyMember("colors").t = "object"
  /\ Get(ReplyMember("colors"), <<"primary">>).t = "string"
  /\ ~isValidColor(Get(ReplyMember("colors"), <<"primary">>).s)
  /\ \A role \in ColorRoles \ {"primary"} : ValidColorOf(ReplyMember("colors"), role)
  /\ engine.result.tokens.colors["primary"] = fallbacks["primary"]
  /\ engine.result.tokens.colors["secondary"] = <<"#", "1", "4", "c">>
  /\ engine.result.tokens.colors["borderDark"] = <<"r", "e", "d">>

\* The errors the specification calls a ParseError.
IsParseError(error) == error \in {ParseError, ExpectedObjectError}

(***************************************************************************)
(* C23 as stated: the call fails with a ParseError exactly when the reply  *)
(* does not yield a well-formed object, with the SchemaError about colors  *)
(* exactly when the colors field of that object is absent or is not an     *)
(* object (null, a primitive or an array), and returns a result in every   *)
(* other case.                                                             *)
(***************************************************************************)
C23_FailsExactlyWhen ==
  engine.call # "" =>
    /\ IsParseError(engine.result.error) <=> ~ReplyIsObject
    /\ engine.result.error = SchemaError <=>
         (ReplyIsObject /\ ReplyMember("colors").t # "object")
    /\ engine.result.error = NoError <=>
         (ReplyIsObject /\ ReplyMember("colors").t = "object")

TokenGroups == {"colors", "typography", "spacing", "radius", "shadow", "transition"}
Populated(value) == value.t \notin {"undefined", "null"}

(***************************************************************************)
(* C24: in every result the spacing and transition groups are the fixed    *)
(* defaults whatever the reply holds for them, the six groups are all      *)
(* there, and each has all its keys with a value (a non-empty text; in     *)
(* typography, which is not validated, a value that is not null or         *)
(* undefined).                                                             *)
(***************************************************************************)
C24_GroupsComplete ==
  EngineReturned =>
    LET tokens == engine.result.tokens
    IN /\ tokens.spacing = defaultSpacingTokens
       /\ tokens.transition = defaultTransitionTokens
       /\ DOMAIN tokens = TokenGroups
       /\ DOMAIN tokens.colors = ColorRoles
       /\ \A role \in ColorRoles : tokens.colors[role] # <<>>
       /\ DOMAIN tokens.radius = RadiusKeys
       /\ \A key \in RadiusKeys : tokens.radius[key] # <<>>
       /\ DOMAIN tokens.shadow = ShadowKeys
       /\ \A key \in ShadowKeys : tokens.shadow[key] # <<>>
       /\ DOMAIN tokens.typography = DOMAIN defaultTypographyTokens
       /\ \A group \in DOMAIN defaultTypographyTokens :
            /\ DOMAIN tokens.typography[group] = DOMAIN defaultTypographyTokens[group]
            /\ \A key \in DOMAIN defaultTypographyTokens[group] :
                 Populated(tokens.typography[group][key])

\* The reply gives spacing and transition values of its own, a typography
\* with a null in it, and no shadow.
C24_Witness ==
  /\ EngineReturned
  /\ ReplyMember("spacing").t = "object"
  /\ Get(ReplyMember("spacing"), <<"xs">>).t = "string"
  /\ ReplyMember("transition").t = "object"
  /\ Get(Get(ReplyMember("typography"), <<"fontFamily">>), <<"mono">>).t = "null"
  /\ ReplyMember("shadow").t = "undefined"
  /\ engine.result.tokens.spacing["xs"] = <<"0.25rem">>
  /\ engine.result.tokens.typography["fontFamily"]["mono"] =
       defaultTypographyTokens["fontFamily"]["mono"]
  /\ engine.result.tokens.typography["fontFamily"]["sans"] =
       JsonString(<<"A", "r", "i", "a", "l">>)

(***************************************************************************)
(* C25: in every result, radius (and shadow) is, when the reply holds an   *)
(* object there, key by key the reply's value where it is a valid string   *)
(* for the group and the default of the key otherwise; when the reply      *)
(* holds no object there it is the whole default group.                    *)
(***************************************************************************)
C25_RadiusShadowPerKey ==
  EngineReturned =>
    LET radius == ReplyMember("radius")
        shadow == ReplyMember("shadow")
    IN /\ IF radius.t = "object"
          THEN \A key \in RadiusKeys :
                 engine.result.tokens.radius[key] =
                   LET value == Get(radius, <<key>>)
                   IN IF value.t = "string" /\ isValidRadiusValue(value.s)
                      THEN value.s ELSE defaultRadiusTokens[key]
          ELSE engine.result.tokens.radius = defaultRadiusTokens
       /\ IF shadow.t = "object"
          THEN \A key \in ShadowKeys :
                 engine.result.tokens.shadow[key] =
                   LET value == Get(shadow, <<key>>)
                   IN IF value.t = "string" /\ isValidShadowValue(value.s)
                      THEN value.s ELSE defaultShadowTokens[key]
          ELSE engine.result.tokens.shadow = defaultShadowTokens

\* A radius object with a valid sm, an invalid full and a number for lg.
C25_Witness ==
  /\ EngineReturned
  /\ ReplyMember("radius").t = "object"
  /\ Get(ReplyMember("radius"), <<"sm">>) = JsonString(<<"1", ".", "5", "r", "e", "m">>)
  /\ Get(ReplyMember("radius"), <<"full">>) = JsonString(<<"1", "e", "m">>)
  /\ engine.result.tokens.radius["sm"] = <<"1", ".", "5", "r", "e", "m">>
  /\ engine.result.tokens.radius["full"] = defaultRadiusTokens["full"]
  /\ engine.result.tokens.radius["lg"] = defaultRadiusTokens["lg"]
  /\ engine.result.tokens.radius["none"] = <<"2", "p", "x">>
  /\ engine.result.tokens.shadow = defaultShadowTokens

(***************************************************************************)
(* C26: parseFullResponse returns the custom field of the reply exactly    *)
(* when it is a plain object and no custom otherwise; what custom holds    *)
(* never makes the call fail; the tokens have no custom key; and           *)
(* parseResponse returns the tokens parseFullResponse returns.             *)
(***************************************************************************)
C26_CustomOnlyPlainObject ==
  /\ (EngineCalled("parseFullResponse") /\ engine.result.error = NoError) =>
       engine.result.custom =
         IF ReplyMember("custom").t = "object" THEN ReplyMember("custom") ELSE Undefined
  /\ (engine.call # "" /\ ReplyIsObject /\ TruthyObject(ReplyMember("colors"))) =>
       engine.result.error = NoError
  /\ EngineReturned => "custom" \notin DOMAIN engine.result.tokens
  /\ EngineCalled("parseResponse") =>
       LET full == parseFullResponse(engine.reply)
       IN /\ engine.result.error = full.error
          /\ engine.result.tokens = full.tokens

\* A reply whose custom is an array: the call returns, without custom.
C26_Witness ==
  /\ EngineCalled("parseFullResponse") /\ engine.result.error = NoError
  /\ ReplyMember("custom").t = "array" /\ ReplyMember("custom").a # <<>>
  /\ engine.result.custom = Undefined
  /\ engine.result.tokens.colors["primary"] = <<"#", "1", "2", "3">>


\* What the variable map of the token set at hand holds for a path.
VariableOf(path) ==
  LET map == toCSSVariables(resolver.tokens)
      name == getVariableName(path)
  IN IF name \in DOMAIN map THEN JsonString(map[name]) ELSE Undefined

\* C27: for a built-in theme and any token path, getToken returns a leaf
\* value, and the variable map holds that value as text under the name
\* getVariableName computes for the path.
C27_RoundTrip ==
  (resolver.tokens \in BuiltinTokens /\ resolver.last.call = "getToken") =>
     /\ resolver.last.value # Undefined
     /\ VariableOf(resolver.last.path) = JsonString(String(resolver.last.value))

\* The round trip of C27 on the paths whose leaf the token set defines.
RoundTripOfDefinedLeaves ==
  (resolver.last.call = "getToken" /\ resolver.last.value.t \in {"string", "number"}) =>
     VariableOf(resolver.last.path) = JsonString(String(resolver.last.value))
RoundTripOfDefinedLeaves_Witness ==
  /\ resolver.tokens \in BuiltinTokens
  /\ resolver.last.call = "getToken"
  /\ resolver.last.value.t = "number"

\* The keys flatten writes for an optional group, and what C28 expects of each.
FlatKey(group, key) == Chars[group] \o <<"-">> \o Chars[key]
Backfilled(group, key) ==
  LET given == Get(Get(resolver.tokens, Chars[group]), Chars[key])
  IN IF given = Undefined THEN JsonString(OptionalDefaults[group][key]) ELSE given

\* C28: after flatten, every key of spacing, radius, shadow and transition is
\* in the flat map, with the token set's value or, where the token set has
\* none, the default.
C28_OptionalGroupsPopulated ==
  resolver.last.call = "flatten" =>
    \A group \in DOMAIN OptionalDefaults :
      \A key \in DOMAIN OptionalDefaults[group] :
        /\ FlatKey(group, key) \in DOMAIN resolver.last.map
        /\ resolver.last.map[FlatKey(group, key)] = Backfilled(group, key)

\* C28 with every optional group either missing or complete.
WholeGroups ==
  \A group \in DOMAIN OptionalDefaults :
    LET given == Get(resolver.tokens, Chars[group])
    IN \/ given \in {Undefined, JsonNull}
       \/ \A key \in DOMAIN OptionalDefaults[group] : Chars[key] \in DOMAIN given.f
PopulatedWhenWhole == WholeGroups => C28_OptionalGroupsPopulated
PopulatedWhenWhole_Witness ==
  /\ resolver.last.call = "flatten"
  /\ Get(resolver.tokens, Chars.spacing).t = "object"
  /\ WholeGroups


(***************************************************************************)
(* C31: in every state getActive() is null or the theme the registry holds *)
(* under its id: has(getActive().id), and get(getActive().id) is the same  *)
(* theme object.                                                           *)
(***************************************************************************)
C31_ActiveIsRegistered ==
  activeTheme = NoTheme
    \/ (MapHas(themes, activeTheme.id) /\ themes[activeTheme.id] = activeTheme)


\* The terminal events of a generate call, in the order it emitted them.
TerminalEvents(c) ==
  SelectSeq(c.log, LAMBDA e : e.type \in {"theme:generated", "theme:error"})
Announced(c) ==
  c.kind = "generate" /\ c.log # <<>> /\ c.log[1].type = "theme:generating"
GenerateInFlight == \E c \in BagToSet(calls) : Announced(c)
OneTerminalEvent(c) ==
  /\ Len(TerminalEvents(c)) = 1
  /\ TerminalEvents(c)[1] = c.log[Len(c.log)]
  /\ TerminalEvents(c)[1].type =
       (IF c.pc = "resolved" THEN "theme:generated" ELSE "theme:error")

(***************************************************************************)
(* C32: when every provider attempt and storage call settles, a generate   *)
(* call that emitted theme:generating emits no terminal event while it is  *)
(* in flight, and comes to settle with exactly one, its last event:        *)
(* theme:generated when it resolves, theme:error when it rejects.          *)
(***************************************************************************)
C32_GenerateTerminates ==
  /\ [](\A c \in BagToSet(calls) : TerminalEvents(c) = <<>>)
  /\ []((Announced(settled) /\ Settles(settled)) => OneTerminalEvent(settled))
  /\ (GenerateInFlight ~> (Announced(settled) /\ Settles(settled)))

\* The retry loop ran out of attempts after more than one and the call
\* rejected with a single theme:error.
C32_Witness ==
  /\ Announced(settled) /\ settled.pc = "rejected"
  /\ retry.pc = "rejected" /\ retry.attempts > 1
  /\ OneTerminalEvent(settled)


\* What an operation did: its statements, and its handler calls.
Statements(log) == SelectSeq(log, LAMBDA e : e[1] = "do")
HandlerCalls(log) == SelectSeq(log, LAMBDA e : e[1] = "call")
RECURSIVE CallsOf(_, _)
CallsOf(steps, listeners) ==
  IF steps = <<>> THEN <<>>
  ELSE (IF steps[1][1] = "emit"
        THEN [i \in 1..Len(listeners) |-> <<"call", steps[1][2], listeners[i]>>]
        ELSE <<>>)
         \o CallsOf(Tail(steps), listeners)

(***************************************************************************)
(* C33: whatever handlers throw, no operation of the manager ends with the *)
(* error, and one that has returned ran all its statements in order and    *)
(* called, at each emit, every subscribed handler in order.                *)
(***************************************************************************)
C33_ThrowingHandlerIsContained ==
  /\ delivery.outcome # "threw"
  /\ delivery.outcome = "returned" =>
       /\ Statements(delivery.done) = Statements(delivery.steps)
       /\ HandlerCalls(delivery.done) = CallsOf(delivery.steps, delivery.listeners)

\* An unregister of the active theme whose first handler threw: the second
\* handler was called and the active theme cleared.
C33_Witness ==
  /\ delivery.op = "unregister" /\ delivery.outcome = "returned"
  /\ delivery.listeners = <<"h1", "h2">>
  /\ delivery.done =
       <<Do("themes.delete"),
         <<"call", "theme:unregistered", "h1">>,
         <<"console.error", "theme:unregistered">>,
         <<"call", "theme:unregistered", "h2">>,
         Do("activeTheme = null"), Do("cssInjector.clear")>>


\* destroy() has run, nothing was registered since, and every call in
\* flight began before it.
DestroyedWithCallsInFlight ==
  /\ themes = EmptyMap /\ activeTheme = NoTheme /\ css = NoId
  /\ \A c \in BagToSet(calls) : c.pre.themes # EmptyMap

(***************************************************************************)
(* C34: once destroy() has returned, a step the caller did not start (the  *)
(* continuation of a call that was in flight when destroy ran) leaves the  *)
(* registry empty, the active theme null and no CSS injected.              *)
(***************************************************************************)
C34_DestroyIsFinal ==
  [][(DestroyedWithCallsInFlight /\ nops' = nops) =>
       (themes' = EmptyMap /\ activeTheme' = NoTheme /\ css' = NoId)]_vars

\* C34 for apply alone: an apply in flight when destroy ran changes nothing
\* afterwards.
DestroyIsFinalForApply ==
  [][(DestroyedWithCallsInFlight /\ nops' = nops
        /\ \A c \in BagToSet(calls) : c.kind = "apply") =>
       (themes' = EmptyMap /\ activeTheme' = NoTheme /\ css' = NoId)]_vars


(***************************************************************************)
(* ThemeManager.init.                                                      *)
(***************************************************************************)
\* A step in which an init() call made of an initialized manager returns.
LaterInitReturns ==
  /\ settled'.kind = "init"
  /\ settled'.pre.initialized
  /\ boot'.ops = boot.ops + 1

\* Such a call reads no storage, changes no state and emits nothing.
LaterInitIsInert ==
  [][LaterInitReturns =>
       /\ settled'.log = <<>>
       /\ settled'.pc = "resolved"
       /\ boot'.loads = boot.loads
       /\ UNCHANGED <<managerVars, storeVars>>]_vars

\* While no init() of the manager has rejected, its init() calls have
\* loaded from storage at most once and emitted at most one theme:changed.
SingleLoadAndApply ==
  ~boot.failed => (boot.loads <= 1 /\ boot.applied <= 1)

\* C35: init() takes effect at most once: once an init() has completed,
\* a later init() reads no storage, changes no state and emits nothing, and
\* when two init() calls overlap the initial theme is applied only once,
\* with a single load from storage and a single theme:changed event.
C35_InitTakesEffectOnce == LaterInitIsInert /\ []SingleLoadAndApply

\* A later init() of an initialized manager has returned.
LaterInitSeen == settled.kind = "init" /\ settled.pre.initialized


\* The init() call of a manager that was not initialized has settled.
InitSettled ==
  settled.kind = "init" /\ Settles(settled) /\ ~settled.pre.initialized

\* That call was to load from storage: there is a storage manager and
\* autoLoad is not false.
InitLoaded == settled.pre.storageManager /\ boot.autoLoad

StorageReads(log) ==
  SelectSeq(log, LAMBDA e : e.type \in {"storage:getActiveThemeId",
                                        "storage:getThemes"})

\* The theme init() is to apply, by the priority of the claim.
InitialTheme ==
  LET saved == settled.pre.persistedActiveId
      default == boot.defaultTheme
  IN  IF InitLoaded /\ saved # NoId /\ MapHas(themes, saved) THEN themes[saved]
      ELSE IF default # NoId /\ MapHas(themes, default) THEN themes[default]
      ELSE settled.pre.activeTheme

InitWithoutLoad ==
  /\ InitSettled /\ settled.pre.storageManager /\ ~boot.autoLoad
  /\ settled.pre.persistedActiveId = AiId(0)
  /\ activeTheme.id = LightId

\* init() with neither a saved nor a default theme to apply.
InitAppliesNothing ==
  /\ InitSettled /\ InitLoaded
  /\ settled.pre.persistedActiveId = MissingId /\ boot.defaultTheme = MissingId
  /\ activeTheme = NoTheme


\* A step that is a call of unregister.
UnregisterStep == lastOp'.name = "unregister" /\ boot'.ops = boot.ops + 1

\* unregister writes nothing to storage.
UnregisterKeepsStorage == [][UnregisterStep => UNCHANGED storeVars]_vars

\* The generated themes that were unregistered and are in storage.
Restorable ==
  {id \in boot.dropped : id[1] = "ai" /\ MapHas(persistedThemes, id)}

\* The init() of a manager made after the first has brought back the
\* unregistered themes that are in storage, and made the one whose id was
\* the persisted active id the active theme.
Restored ==
  /\ \A id \in Restorable :
       MapHas(themes, id) /\ themes[id] = persistedThemes[id]
  /\ settled.pre.persistedActiveId \in Restorable =>
       activeTheme = persistedThemes[settled.pre.persistedActiveId]

NextManagerInitSettled == InitSettled /\ boot.managers > 1

\* C37: unregister(id) changes only in-memory state, the persisted theme
\* records and the persisted active id stay as they are, so a theme that
\* generate saved and that was unregistered is registered again, and applied
\* again if its id was the persisted active id, by the init() of the next
\* manager made on the same storage.
C37_UnregisterIsInMemoryOnly ==
  UnregisterKeepsStorage /\ [](NextManagerInitSettled => Restored)

\* The same, for a next manager whose autoLoad is not false.
C37_RestoredWhenLoading ==
  UnregisterKeepsStorage /\ []((NextManagerInitSettled /\ InitLoaded) => Restored)

\* generate ran, its theme was unregistered, and the init() of the next
\* manager has made it the active theme again.
C37_Witness ==
  /\ NextManagerInitSettled /\ InitLoaded
  /\ nops > 0
  /\ AiId(0) \in Restorable
  /\ settled.pre.persistedActiveId = AiId(0)
  /\ ~MapHas(settled.pre.themes, AiId(0))
  /\ activeTheme.id = AiId(0)


(***************************************************************************)
(* The bindings.                                                           *)
(***************************************************************************)
\* C38: in the React and Vue bindings isGenerating is true exactly while
\* at least one generate or adjust call started through the binding is in
\* flight: true from the start of a call until it settles, false when no
\* call is in flight, and not false while an overlapping call still runs.
C38_IsGeneratingWhileInFlight ==
  isGenerating(binding) <=> (binding.inFlight # <<>>)

\* The flag is false when no call is in flight, after success and after
\* failure alike.
FalseWhenIdle == (binding.inFlight = <<>>) => ~isGenerating(binding)

\* The flag is exact as long as no two calls through the same entry point
\* have overlapped.
ExactWithoutOverlap == ~binding.overlapped => C38_IsGeneratingWhileInFlight

\* A call has failed with no other in flight.
FailedAndIdle ==
  binding.last = "rejected" /\ binding.inFlight = <<>> /\ aiError(binding)

\* The composable and the plugin each have a call in flight.
BothEntryPointsBusy ==
  /\ ~binding.overlapped
  /\ \E i, j \in 1..Len(binding.inFlight) :
       binding.inFlight[i].via = "composable" /\ binding.inFlight[j].via = "plugin"

====
